---- MODULE Spec2Model ----
(***************************************************************************)
(* Model of the C++ binding generator of isl (interface/cpp.cc) and of the *)
(* code it emits.  The generator is a function of the extracted classes    *)
(* and of the flag "noexceptions"; the emitted method bodies, accessors    *)
(* and downcast helpers are kept as statement lists and executed by the    *)
(* run-time part of the model.                                             *)
(*                                                                         *)
(* Text is modelled as sequences of one-character strings, so that         *)
(* substr(), find()/replace() and string comparison act as in the source.  *)
(***************************************************************************)
EXTENDS Integers, Sequences, FiniteSets, TLC

VARIABLES
    noexceptions,   \* the generator's mode flag, fixed for one run
    classes,        \* map<string, isl_class> of the generator
    typeIn,         \* the type last handed to type2cpp, <<>> if none
    typeOut,        \* the text type2cpp returned for it
    hdrFn,          \* <<class key, function, kind>> of the header last printed
    hdrDecl,        \* the header printed for its declaration
    hdrImpl,        \* the header printed for its definition
    aborted,        \* die() was called: the generator has stopped
    os,             \* the output stream of generate()
    gen,            \* generate(): the loop it is in and its iterator
    obj,            \* the emitted wrapper objects: name -> ptr
    heap,           \* the isl objects: handle -> [refs, tag]
    op,             \* the wrapper operation performed last
    tagCalls,       \* calls of the type function by the last operation
    convErr,        \* what converting an error isl::boolean to bool does
    run             \* the execution of one emitted method

genVars == <<classes, typeIn, typeOut, hdrFn, hdrDecl, hdrImpl, aborted, os, gen>>
objVars == <<obj, heap, op, tagCalls, convErr>>
vars == <<noexceptions, genVars, objVars, run>>

(***************************************************************************)
(* Text.                                                                   *)
(***************************************************************************)
IslPrefixLen == 4

s_isl_ == <<"i", "s", "l", "_">>
s_islcc == <<"i", "s", "l", ":", ":">>
s_bool == <<"b", "o", "o", "l">>
s_boolean == s_islcc \o <<"b", "o", "o", "l", "e", "a", "n">>
s_void == <<"v", "o", "i", "d">>
s_stat == s_islcc \o <<"s", "t", "a", "t">>
s_ctx == s_islcc \o <<"c", "t", "x">>
s_string == <<"s", "t", "d", ":", ":", "s", "t", "r", "i", "n", "g">>
s_function == <<"s", "t", "d", ":", ":", "f", "u", "n", "c", "t", "i", "o", "n", "<">>
s_die == <<"d", "i", "e">>

\* std::string::substr(pos)
substr(s, pos) == SubSeq(s, pos + 1, Len(s))

\* std::string::find(pat): the first position (from 0) where pat occurs, or -1
find(s, pat) ==
    LET hits == {i \in 0..(Len(s) - Len(pat)) : SubSeq(s, i + 1, i + Len(pat)) = pat}
    IN  IF hits = {} THEN -1 ELSE CHOOSE i \in hits : \A j \in hits : i <= j

\* std::string::replace(pos, len, str)
replace(s, pos, len, str) ==
    SubSeq(s, 1, pos) \o str \o SubSeq(s, pos + len + 1, Len(s))

(***************************************************************************)
(* Names of the extracted API.                                             *)
(***************************************************************************)
n_uset == s_isl_ \o <<"u", "s", "e", "t">>
n_set == s_isl_ \o <<"s", "e", "t">>
n_bset == s_isl_ \o <<"b", "s", "e", "t">>
n_val == s_isl_ \o <<"v", "a", "l">>
n_node == s_isl_ \o <<"n", "o", "d", "e">>
n_band == s_isl_ \o <<"n", "o", "d", "e", "_", "b", "a", "n", "d">>
n_leaf == s_isl_ \o <<"n", "o", "d", "e", "_", "l", "e", "a", "f">>
n_ctx == s_isl_ \o <<"c", "t", "x">>
\* an isl type that is not exported as a class
n_point == s_isl_ \o <<"p", "o", "i", "n", "t">>
n_int == <<"i", "n", "t">>
n_dim == <<"e", "n", "u", "m", " ">> \o s_isl_ \o <<"d", "i", "m">>

(***************************************************************************)
(* Types (clang QualType).  "cat" is the category the predicates of        *)
(* generator.cc recognise, "cname" the C spelling (of the pointee for      *)
(* object types), "cb" the return type followed by the argument types of a *)
(* callback (the last one being "void *user"), "takes" whether the         *)
(* callback's object arguments are __isl_take.                             *)
(***************************************************************************)
Ty(cat, cname) == [cat |-> cat, cname |-> cname, cb |-> <<>>, takes |-> FALSE]
CbTy(ret, args, takes) ==
    [cat |-> "callback", cname |-> <<>>, cb |-> <<ret>> \o args, takes |-> takes]

t_uset == Ty("isl", n_uset)
t_set == Ty("isl", n_set)
t_bset == Ty("isl", n_bset)
t_val == Ty("isl", n_val)
t_point == Ty("isl", n_point)
t_node == Ty("isl", n_node)
t_ctx == Ty("ctx", n_ctx)
t_bool == Ty("bool", <<>>)
t_stat == Ty("stat", <<>>)
t_int == Ty("int", n_int)
t_enum == Ty("enum", n_dim)
t_str == Ty("string", <<>>)
t_user == Ty("void", <<>>)
t_double == Ty("double", <<"d", "o", "u", "b", "l", "e">>)
t_cb_stat == CbTy(t_stat, <<t_bset, t_user>>, TRUE)
t_cb_bool == CbTy(t_bool, <<t_set, t_user>>, FALSE)
t_cb_obj == CbTy(t_set, <<t_set, t_user>>, TRUE)
t_cb_double == CbTy(t_stat, <<t_double, t_user>>, FALSE)

is_isl_type(type) == type.cat \in {"isl", "ctx"}
is_isl_ctx(type) == type.cat = "ctx"
is_isl_bool(type) == type.cat = "bool"
is_isl_stat(type) == type.cat = "stat"
is_isl_enum(type) == type.cat = "enum"
isEnumeralType(type) == type.cat = "enum"
isIntegerType(type) == type.cat \in {"int", "enum", "bool", "stat"}
is_void_ptr(type) == type.cat = "void"
is_string(type) == type.cat = "string"
is_callback(type) == type.cat = "callback"

extensions == TRUE

(***************************************************************************)
(* Type mapping.                                                           *)
(***************************************************************************)
\* type2cpp(string type_str)
type2cpp_str(type_str) == substr(type_str, IslPrefixLen)

isl_bool2cpp_wrong(noexc) == s_bool
isl_bool2cpp_in(noexc) == IF noexc THEN s_boolean ELSE s_bool
isl_bool2cpp == isl_bool2cpp_in(noexceptions)

\* a type2cpp that takes every remaining type for an integer type
type2cpp_plain_int(type, noexc) ==
    IF is_isl_type(type) THEN s_islcc \o type2cpp_str(type.cname)
    ELSE IF is_isl_bool(type) THEN isl_bool2cpp_in(noexc)
    ELSE IF is_isl_stat(type) THEN (IF noexc THEN s_stat ELSE s_void)
    ELSE IF extensions /\ isEnumeralType(type)
        THEN replace(type.cname, find(type.cname, s_isl_), IslPrefixLen, s_islcc)
    ELSE IF extensions /\ is_isl_ctx(type) THEN s_ctx
    ELSE IF is_string(type) THEN s_string
    ELSE type.cname

\* type2cpp(QualType) for a type that is not a callback; s_die stands for
\* the call of die() at its end
type2cpp_plain(type, noexc) ==
    IF is_isl_type(type) THEN s_islcc \o type2cpp_str(type.cname)
    ELSE IF is_isl_bool(type) THEN isl_bool2cpp_in(noexc)
    ELSE IF is_isl_stat(type) THEN (IF noexc THEN s_stat ELSE s_void)
    ELSE IF extensions /\ isEnumeralType(type)
        THEN replace(type.cname, find(type.cname, s_isl_), IslPrefixLen, s_islcc)
    ELSE IF extensions /\ is_isl_ctx(type) THEN s_ctx
    ELSE IF isIntegerType(type) THEN type.cname
    ELSE IF is_string(type) THEN s_string
    ELSE s_die

RECURSIVE join_types(_, _, _)
join_types(ts, n, noexc) ==
    IF n = 0 THEN <<>>
    ELSE join_types(ts, n - 1, noexc) \o (IF n > 1 THEN <<",", " ">> ELSE <<>>)
         \o type2cpp_plain(ts[n], noexc)

\* generate_callback_args(type, cpp = true): the C++ types of the callback's
\* arguments, without the trailing user pointer
generate_callback_args(type, noexc) ==
    join_types(Tail(type.cb), Len(type.cb) - 2, noexc)

generate_callback_type(type, noexc) ==
    s_function \o type2cpp_plain(type.cb[1], noexc) \o <<"(">>
    \o generate_callback_args(type, noexc) \o <<")", ">">>

type2cpp_in(type, noexc) ==
    IF is_callback(type) THEN generate_callback_type(type, noexc)
    ELSE type2cpp_plain(type, noexc)

type2cpp(type) == type2cpp_in(type, noexceptions)

\* whether type2cpp(type) reaches die(), itself or through
\* generate_callback_type and generate_callback_args
type2cpp_dies(type, noexc) ==
    IF is_callback(type)
    THEN \E i \in 1..(Len(type.cb) - 1) : type2cpp_plain(type.cb[i], noexc) = s_die
    ELSE type2cpp_plain(type, noexc) = s_die

(***************************************************************************)
(* The extracted API (isl_class, FunctionDecl, ParmVarDecl).               *)
(***************************************************************************)
\* "keeps": the parameter is annotated __isl_keep (object parameters only)
Par(name, type, keep) == [name |-> name, type |-> type, keeps |-> keep]
Fn(name, ret, params, give) ==
    [name |-> name, ret |-> ret, params |-> params, gives |-> give]

keeps(param) == param.keeps
gives(method) == method.gives
callback_takes_arguments(type) == type.takes

\* constructors
f_uset_from_set == Fn("isl_uset_from_set", t_uset, <<Par("set", t_set, FALSE)>>, TRUE)
f_uset_from_bset == Fn("isl_uset_from_bset", t_uset, <<Par("bset", t_bset, FALSE)>>, TRUE)
f_uset_from_uset == Fn("isl_uset_from_uset", t_uset, <<Par("uset", t_uset, FALSE)>>, TRUE)
f_uset_from_val == Fn("isl_uset_from_val", t_uset, <<Par("val", t_val, FALSE)>>, TRUE)
f_uset_empty == Fn("isl_uset_empty", t_uset, <<Par("ctx", t_ctx, FALSE)>>, TRUE)
f_uset_read == Fn("isl_uset_read_from_str", t_uset,
                  <<Par("ctx", t_ctx, FALSE), Par("str", t_str, FALSE)>>, TRUE)
f_uset_from_int == Fn("isl_uset_from_int", t_uset, <<Par("n", t_int, FALSE)>>, TRUE)
f_uset_from_point == Fn("isl_uset_from_point", t_uset,
                        <<Par("point", t_point, FALSE)>>, TRUE)
f_uset_from_d == Fn("isl_uset_from_d", t_uset, <<Par("d", t_double, FALSE)>>, TRUE)
f_uset_pair == Fn("isl_uset_from_pair", t_uset,
                  <<Par("set", t_set, FALSE), Par("bset", t_bset, FALSE)>>, TRUE)
f_set_from_bset == Fn("isl_set_from_bset", t_set, <<Par("bset", t_bset, FALSE)>>, TRUE)
f_set_from_uset == Fn("isl_set_from_uset", t_set, <<Par("uset", t_uset, FALSE)>>, TRUE)
f_val_int == Fn("isl_val_int_from_si", t_val,
                <<Par("ctx", t_ctx, FALSE), Par("i", t_int, FALSE)>>, TRUE)

\* methods
f_set_intersect == Fn("isl_set_intersect", t_set,
                      <<Par("set1", t_set, FALSE), Par("set2", t_set, FALSE)>>, TRUE)
f_set_is_subset == Fn("isl_set_is_subset", t_bool,
                      <<Par("set1", t_set, TRUE), Par("set2", t_set, TRUE)>>, FALSE)
f_set_foreach == Fn("isl_set_foreach_bset", t_stat,
                    <<Par("set", t_set, TRUE), Par("fn", t_cb_stat, FALSE),
                      Par("user", t_user, FALSE)>>, FALSE)
f_set_every == Fn("isl_set_every_set", t_bool,
                  <<Par("set", t_set, TRUE), Par("test", t_cb_bool, FALSE),
                    Par("user", t_user, FALSE)>>, FALSE)
f_set_map == Fn("isl_set_map_set", t_set,
                <<Par("set", t_set, FALSE), Par("fn", t_cb_obj, FALSE),
                  Par("user", t_user, FALSE)>>, TRUE)
f_set_dim == Fn("isl_set_dim", t_int,
                <<Par("set", t_set, TRUE), Par("type", t_enum, FALSE)>>, FALSE)
f_set_name == Fn("isl_set_get_name", t_str, <<Par("set", t_set, TRUE)>>, FALSE)
f_set_from_val == Fn("isl_set_from_val_static", t_set, <<Par("val", t_val, FALSE)>>, TRUE)
f_node_parent == Fn("isl_node_parent", t_node, <<Par("node", t_node, FALSE)>>, TRUE)
f_node_domain == Fn("isl_node_get_domain", t_uset, <<Par("node", t_node, TRUE)>>, TRUE)
f_band_tile == Fn("isl_node_band_tile", t_node,
                  <<Par("node", t_node, FALSE), Par("sizes", t_val, FALSE)>>, TRUE)
f_band_perm == Fn("isl_node_band_get_permutable", t_bool,
                  <<Par("node", t_node, TRUE)>>, FALSE)
f_band_space == Fn("isl_node_band_get_space", t_set, <<Par("node", t_node, TRUE)>>, TRUE)

\* isl_class: "supers" is what generator::find_superclasses reads off "type"
Cls(name, subclass_name, supers, fn_type, fn_to_str, constructors, methods) ==
    [name |-> name, subclass_name |-> subclass_name, supers |-> supers,
     fn_type |-> fn_type, fn_to_str |-> fn_to_str,
     constructors |-> constructors, methods |-> methods]

is_type_subclass(clazz) == clazz.name # clazz.subclass_name

c_uset(cons) == Cls(n_uset, n_uset, <<>>, FALSE, TRUE, cons, <<>>)
c_set == Cls(n_set, n_set, <<n_uset>>, FALSE, TRUE,
             <<f_set_from_bset, f_set_from_uset>>,
             <<f_set_intersect, f_set_is_subset, f_set_foreach, f_set_every, f_set_map,
               f_set_dim, f_set_name, f_set_from_val>>)
c_bset == Cls(n_bset, n_bset, <<n_set>>, FALSE, FALSE, <<>>, <<>>)
c_val == Cls(n_val, n_val, <<>>, FALSE, FALSE, <<f_val_int>>, <<>>)
c_node == Cls(n_node, n_node, <<>>, TRUE, TRUE, <<>>, <<f_node_parent, f_node_domain>>)
c_band == Cls(n_node, n_band, <<>>, FALSE, FALSE, <<>>,
              <<f_band_tile, f_band_perm, f_band_space>>)
c_leaf == Cls(n_node, n_leaf, <<>>, FALSE, FALSE, <<>>, <<f_node_domain>>)

ClassKeys == {n_uset, n_set, n_bset, n_val, n_node, n_band, n_leaf}

\* The class maps the extractor may hand over: they differ in the
\* constructors declared for isl_uset.
UsetConstructors ==
    {<<f_uset_from_set, f_uset_from_bset, f_uset_read>>,
     <<f_uset_from_uset, f_uset_from_val, f_uset_empty>>,
     <<f_uset_from_int, f_uset_pair, f_uset_from_set>>,
     <<f_uset_from_d, f_uset_from_set, f_uset_empty>>,
     <<f_uset_from_point, f_uset_from_set, f_uset_empty>>}

ClassMap(cons) ==
    [k \in ClassKeys |->
        IF k = n_uset THEN c_uset(cons)
        ELSE IF k = n_set THEN c_set
        ELSE IF k = n_bset THEN c_bset
        ELSE IF k = n_val THEN c_val
        ELSE IF k = n_node THEN c_node
        ELSE IF k = n_band THEN c_band
        ELSE c_leaf]

\* a class map in which the superclass of the type based subclasses has no
\* type function
ClassMapNoType ==
    [ClassMap(<<f_uset_from_set, f_uset_from_bset, f_uset_read>>)
        EXCEPT ![n_node].fn_type = FALSE]

\* a class map with a type based subclass whose name sorts before the name
\* of its superclass
n_first == s_isl_ \o <<"b", "a", "n", "d">>
ClassMapEarlySubclass ==
    LET base == ClassMap(<<f_uset_from_set, f_uset_from_bset, f_uset_read>>)
    IN  [k \in ClassKeys \cup {n_first} |->
            IF k = n_first THEN Cls(n_node, n_first, <<>>, FALSE, FALSE, <<>>, <<>>)
            ELSE base[k]]

InputModels == {ClassMap(cons) : cons \in UsetConstructors}
                    \cup {ClassMapNoType, ClassMapEarlySubclass}

\* type2cpp(const isl_class &clazz)
type2cpp_class(clazz) == type2cpp_str(clazz.subclass_name)

(***************************************************************************)
(* Method classification.                                                  *)
(***************************************************************************)
\* generator::is_static: the first argument is not an object of the class
is_static(clazz, method) ==
    ~(Len(method.params) > 0
      /\ method.params[1].type.cat = "isl"
      /\ method.params[1].type.cname = clazz.name)

\* a get_method_kind with the two kinds exchanged
get_method_kind_swapped(clazz, method) ==
    IF is_static(clazz, method) THEN "member_method" ELSE "static_method"

\* get_method_kind
get_method_kind(clazz, method) ==
    IF is_static(clazz, method) THEN "static_method" ELSE "member_method"

\* std::map::operator[]: a key that is missing is inserted with a
\* value-initialised isl_class
map_touch(map, key) ==
    IF key \in DOMAIN map THEN map
    ELSE [k \in (DOMAIN map) \cup {key} |->
            IF k = key THEN Cls(<<>>, <<>>, <<>>, FALSE, FALSE, <<>>, <<>>)
            ELSE map[k]]

\* The while loop of is_subclass: "stack" holds the keys of the classes in
\* "parents"; the candidate is taken from the back and its superclasses are
\* pushed.  Two pointers into the map are equal iff their keys are.
RECURSIVE subclass_walk_direct(_, _, _)
subclass_walk_direct(map, stack, class_key) ==
    IF stack = <<>> THEN FALSE
    ELSE LET candidate == stack[Len(stack)]
             rest == SubSeq(stack, 1, Len(stack) - 1)
         IN  IF class_key = candidate THEN TRUE
             ELSE subclass_walk_direct(map, rest, class_key)

RECURSIVE subclass_walk(_, _, _)
subclass_walk(map, stack, class_key) ==
    IF stack = <<>> THEN FALSE
    ELSE LET candidate == stack[Len(stack)]
             rest == SubSeq(stack, 1, Len(stack) - 1)
         IN  IF class_key = candidate THEN TRUE
             ELSE subclass_walk(map, rest \o map[candidate].supers, class_key)

\* is_subclass(subclass_type, class_type), class_type being classes[class_key]
is_subclass(map, subclass_type, class_key) ==
    LET type_str == subclass_type.cname
    IN  subclass_walk(map, map_touch(map, type_str)[type_str].supers, class_key)

\* the class map after is_subclass, which looks type_str up with operator[]
is_subclass_map(map, subclass_type) == map_touch(map, subclass_type.cname)

is_implicit_conversion(map, class_key, cons) ==
    LET type == cons.params[1].type
        num_params == Len(cons.params)
    IN  IF num_params # 1 THEN FALSE
        ELSE is_isl_type(type) /\ ~is_isl_ctx(type)
             /\ is_subclass(map, type, class_key)

(***************************************************************************)
(* Signatures.                                                             *)
(***************************************************************************)
\* super2sub: the return type text after the substitution
super2sub_type(clazz, type) ==
    IF ~is_type_subclass(clazz) THEN type
    ELSE IF type # s_islcc \o type2cpp_str(clazz.name) THEN type
    ELSE s_islcc \o type2cpp_class(clazz)

\* a super2sub that never substitutes
super2sub_never(clazz, type) == FALSE

\* the value super2sub returns
super2sub(clazz, type) ==
    is_type_subclass(clazz) /\ type = s_islcc \o type2cpp_str(clazz.name)

\* the parameter loop of print_method_header, from parameter i (from 0)
RECURSIVE header_params(_, _, _, _)
header_params(method, i, num_params, noexc) ==
    IF i >= num_params THEN <<>>
    ELSE LET param == method.params[i + 1]
             type == param.type
             n == IF is_callback(type) THEN num_params - 1 ELSE num_params
             byref == keeps(param) \/ is_string(type) \/ is_callback(type)
         IN  <<[constref |-> byref, cpptype |-> type2cpp_in(type, noexc),
                name |-> param.name]>>
             \o header_params(method, i + 1, n, noexc)

print_method_header_nosub(map, class_key, method, is_declaration, kind, noexc) ==
    LET clazz == map[class_key]
    IN  [decl |-> is_declaration, fn |-> method.name, cls |-> class_key,
         static |-> is_declaration /\ kind = "static_method",
         explicitness |->
            IF is_declaration /\ kind = "constructor"
            THEN (IF is_implicit_conversion(map, class_key, method)
                  THEN "implicit" ELSE "explicit")
            ELSE "none",
         rettype |-> IF kind # "constructor"
                     THEN (IF is_declaration
                           THEN super2sub_type(clazz, type2cpp_in(method.ret, noexc))
                           ELSE type2cpp_in(method.ret, noexc))
                     ELSE <<>>,
         scope |-> IF is_declaration THEN <<>> ELSE type2cpp_class(clazz),
         params |-> header_params(method,
                        IF kind = "member_method" THEN 1 ELSE 0,
                        Len(method.params), noexc),
         const |-> kind = "member_method"]

print_method_header(map, class_key, method, is_declaration, kind, noexc) ==
    LET clazz == map[class_key]
    IN  [decl |-> is_declaration, fn |-> method.name, cls |-> class_key,
         static |-> is_declaration /\ kind = "static_method",
         explicitness |->
            IF is_declaration /\ kind = "constructor"
            THEN (IF is_implicit_conversion(map, class_key, method)
                  THEN "implicit" ELSE "explicit")
            ELSE "none",
         rettype |-> IF kind # "constructor"
                     THEN super2sub_type(clazz, type2cpp_in(method.ret, noexc))
                     ELSE <<>>,
         scope |-> IF is_declaration THEN <<>> ELSE type2cpp_class(clazz),
         params |-> header_params(method,
                        IF kind = "member_method" THEN 1 ELSE 0,
                        Len(method.params), noexc),
         const |-> kind = "member_method"]

(***************************************************************************)
(* The generator applied to the classes: type2cpp on a type, and the       *)
(* headers print_class and print_class_impl print for one function.        *)
(***************************************************************************)
Types == {t_uset, t_set, t_bset, t_val, t_node, t_ctx, t_bool, t_stat, t_int,
          t_enum, t_str, t_cb_stat, t_cb_bool, t_cb_obj, t_user, t_double,
          t_cb_double}

Range(seq) == {seq[i] : i \in 1..Len(seq)}

ObjIdle == <<>>
\* A wrapper operation: its name, the wrapper it acted on, the template
\* argument, the result, the failure raised, the wrapper's ptr before,
\* whether the operation before it was a release() of the same wrapper,
\* and whether isl_*_copy succeeded.
OpRec(name, on, T, res, raised, pre, prev, copyOk) ==
    [name |-> name, on |-> on, T |-> T, res |-> res, raised |-> raised,
     pre |-> pre, prev |-> prev, copyOk |-> copyOk]
OpIdle == OpRec("idle", "", <<>>, <<>>, "none", <<>>, FALSE, TRUE)
\* One call of an emitted method: the statement to execute next ("pc", 0
\* before the call), whether control is in the caller ("idle"), in the
\* body ("body"), inside the isl function ("isl") or back ("done"); the
\* function, its kind and body; the receiver's ptr and the ptrs of the
\* wrapper arguments now and at the call ("this0", "args0"); "res"; the
\* number of calls of the isl function and of the callback; the eptr of
\* <name>_data; the failure raised and the value returned.
RunRec(pc, st, cls, fn, kind, body, this, args) ==
    [pc |-> pc, st |-> st, cls |-> cls, fn |-> fn, kind |-> kind, body |-> body,
     this |-> this, args |-> args, this0 |-> this, args0 |-> args,
     res |-> 0, calls |-> 0, ncb |-> 0, eptr |-> "none", raised |-> "none",
     ret |-> <<>>, cb |-> <<>>, writes |-> 0, drains |-> 0, as |-> <<>>]
RunIdle == RunRec(0, "idle", <<>>, <<>>, "none", <<>>, 0, <<>>)

GenInit ==
    /\ noexceptions \in BOOLEAN
    /\ classes \in InputModels
    /\ typeIn = <<>> /\ typeOut = <<>>
    /\ aborted = FALSE /\ os = <<>> /\ gen = [pc |-> "idle", ci |-> <<>>]
    /\ hdrFn = <<>> /\ hdrDecl = <<>> /\ hdrImpl = <<>>
    /\ obj = ObjIdle /\ heap = ObjIdle /\ op = OpIdle
    /\ tagCalls = 0 /\ convErr = "false"
    /\ run = RunIdle

\* whether print_method_header reaches die(): type2cpp is applied to the
\* return type and to the type of every parameter of the parameter loop
header_dies(method, kind, noexc) ==
    LET printed == header_params(method, IF kind = "member_method" THEN 1 ELSE 0,
                                 Len(method.params), noexc)
        names == {printed[i].name : i \in 1..Len(printed)}
    IN  \/ type2cpp_dies(method.ret, noexc)
        \/ \E i \in 1..Len(method.params) :
                /\ method.params[i].name \in names
                /\ type2cpp_dies(method.params[i].type, noexc)

\* type2cpp(QualType): returns the C++ type, or calls die()
MapType(type) ==
    /\ ~aborted
    /\ typeIn' = <<type>>
    /\ IF type2cpp_dies(type, noexceptions)
       THEN aborted' = TRUE /\ typeOut' = <<>>
       ELSE aborted' = FALSE /\ typeOut' = <<type2cpp(type)>>
    /\ hdrFn' = <<>> /\ hdrDecl' = <<>> /\ hdrImpl' = <<>>
    /\ UNCHANGED <<noexceptions, classes, os, gen, objVars, run>>

\* print_constructors_decl: print_method_decl for one constructor
PrintConstructorDecl(class_key, cons) ==
    /\ ~aborted
    /\ cons \in Range(classes[class_key].constructors)
    /\ IF header_dies(cons, "constructor", noexceptions)
       THEN aborted' = TRUE /\ hdrFn' = <<>> /\ hdrDecl' = <<>> /\ classes' = classes
       ELSE /\ aborted' = FALSE
            /\ hdrFn' = <<class_key, cons, "constructor">>
            /\ hdrDecl' = <<print_method_header(classes, class_key, cons, TRUE,
                                                "constructor", noexceptions)>>
            /\ classes' = IF Len(cons.params) = 1 /\ is_isl_type(cons.params[1].type)
                             /\ ~is_isl_ctx(cons.params[1].type)
                          THEN is_subclass_map(classes, cons.params[1].type)
                          ELSE classes
    /\ hdrImpl' = <<>>
    /\ typeIn' = <<>> /\ typeOut' = <<>>
    /\ UNCHANGED <<noexceptions, os, gen, objVars, run>>

\* print_method_group_decl: print_method_decl for one method
PrintMethodDecl(class_key, method) ==
    /\ ~aborted
    /\ method \in Range(classes[class_key].methods)
    /\ LET kind == get_method_kind(classes[class_key], method)
       IN  IF header_dies(method, kind, noexceptions)
           THEN aborted' = TRUE /\ hdrFn' = <<>> /\ hdrDecl' = <<>>
           ELSE /\ aborted' = FALSE
                /\ hdrFn' = <<class_key, method, kind>>
                /\ hdrDecl' = <<print_method_header(classes, class_key, method,
                                                    TRUE, kind, noexceptions)>>
    /\ hdrImpl' = <<>>
    /\ typeIn' = <<>> /\ typeOut' = <<>>
    /\ UNCHANGED <<noexceptions, classes, os, gen, objVars, run>>

\* print_constructors_impl / print_method_group_impl: the header
\* print_method_impl prints for the function declared before
PrintMethodImpl ==
    /\ ~aborted
    /\ hdrFn # <<>> /\ hdrImpl = <<>>
    /\ hdrImpl' = <<print_method_header(classes, hdrFn[1], hdrFn[2], FALSE,
                                        hdrFn[3], noexceptions)>>
    /\ UNCHANGED <<noexceptions, classes, typeIn, typeOut, hdrFn, hdrDecl,
                   aborted, os, gen, objVars, run>>

AllFns == UNION {Range(c.constructors) \cup Range(c.methods) :
                 c \in {m[k] : m \in InputModels, k \in ClassKeys}}

GenNext ==
    \/ \E type \in Types : MapType(type)
    \/ \E k \in ClassKeys, f \in AllFns : PrintConstructorDecl(k, f)
    \/ \E k \in ClassKeys, f \in AllFns : PrintMethodDecl(k, f)
    \/ PrintMethodImpl

Spec == GenInit /\ [][GenNext]_vars

(***************************************************************************)
(* Properties of the generator.                                            *)
(***************************************************************************)
\* the classes reached from the keys in S along "supers" in at most n steps
RECURSIVE Ancestors(_, _, _)
Ancestors(map, S, n) ==
    IF n = 0 THEN S
    ELSE Ancestors(map, S \cup UNION {Range(map[k].supers) : k \in S}, n - 1)

\* key "sub" is a transitive subtype of key "sup"
TransitiveSubtype(map, sub, sup) ==
    /\ sub \in DOMAIN map
    /\ sup \in Ancestors(map, Range(map[sub].supers), Cardinality(DOMAIN map))

\* the rendering isl::<name without isl_> of the wrapper of class "key"
WrapperName(key) == s_islcc \o SubSeq(key, 5, Len(key))

\* C8: a declared constructor is emitted as implicit iff it takes exactly one
\* parameter and that parameter is the wrapper of a class that is a
\* transitive subtype of the class under construction; every other
\* constructor is emitted as explicit.
C8_ImplicitIffSubtype ==
    (hdrFn # <<>> /\ hdrFn[3] = "constructor") =>
        LET cons == hdrFn[2]
            type == cons.params[1].type
            sub == /\ Len(cons.params) = 1
                   /\ type.cat = "isl"
                   /\ TransitiveSubtype(classes, type.cname, hdrFn[1])
        IN  hdrDecl[1].explicitness = IF sub THEN "implicit" ELSE "explicit"

\* C8 witness: the constructor isl_uset_from_bset, whose parameter is a
\* subtype of isl_uset only through isl_set, was emitted as implicit.
C8_Witness ==
    /\ hdrFn # <<>> /\ hdrFn[3] = "constructor"
    /\ hdrFn[1] = n_uset /\ hdrFn[2] = f_uset_from_bset
    /\ hdrDecl[1].explicitness = "implicit"

\* C9: a method emitted on a type-tag subclass S of P whose function returns
\* P's type has return type S in its declaration and in its definition;
\* any other return type is kept as type2cpp renders it.
C9_CovariantReturn ==
    (hdrFn # <<>> /\ hdrFn[3] # "constructor") =>
        LET clazz == classes[hdrFn[1]]
            ret == hdrFn[2].ret
            narrowed == /\ clazz.name # clazz.subclass_name
                        /\ ret.cat = "isl" /\ ret.cname = clazz.name
            expected == IF narrowed THEN WrapperName(clazz.subclass_name)
                        ELSE type2cpp(ret)
        IN  /\ hdrDecl[1].rettype = expected
            /\ hdrImpl # <<>> => hdrImpl[1].rettype = expected

\* C9 witness: both headers of isl_node_band_tile, which returns an
\* isl_node, were printed for the subclass isl_node_band.
C9_Witness ==
    /\ hdrFn # <<>> /\ hdrFn[1] = n_band /\ hdrFn[2] = f_band_tile
    /\ hdrImpl # <<>>
    /\ hdrImpl[1].rettype = WrapperName(n_band)
    /\ hdrDecl[1].rettype # type2cpp(f_band_tile.ret)

InCategory(type) ==
    type.cat \in {"isl", "bool", "stat", "enum", "ctx", "int", "string", "callback"}

\* C11: when type2cpp is handed a type of none of the eight categories the
\* generator is aborted and no target type was returned; once aborted the
\* generator takes no further step.
C11_UnmappedTypeAborts ==
    /\ []((typeIn # <<>> /\ ~InCategory(typeIn[1])) => (aborted /\ typeOut = <<>>))
    /\ [][~aborted]_vars

\* C11 witness: type2cpp was handed "double" and the generator is aborted.
C11_Witness ==
    typeIn = <<t_double>> /\ aborted /\ typeOut = <<>>

\* the names of the parameters in a printed header
HeaderNames(hdr) == [i \in 1..Len(hdr.params) |-> hdr.params[i].name]

\* the names of the parameters of "method" from parameter "first" (from 1),
\* without the user pointer that follows a callback
RECURSIVE SignatureNames(_, _)
SignatureNames(method, first) ==
    IF first > Len(method.params) THEN <<>>
    ELSE IF first > 1 /\ is_callback(method.params[first - 1].type)
            /\ is_void_ptr(method.params[first].type)
        THEN SignatureNames(method, first + 1)
    ELSE <<method.params[first].name>> \o SignatureNames(method, first + 1)

\* C12: every function printed for a class has one kind: constructor if it
\* is among the constructors of the class, else member method if its first
\* parameter is an object of the class's wrapped type, else static method;
\* the signatures of member methods, and only those, leave parameter 0 out.
C12_KindOfFunction ==
    hdrFn # <<>> =>
        LET clazz == classes[hdrFn[1]]
            method == hdrFn[2]
            first == method.params[1].type
            expected == IF method \in Range(clazz.constructors) THEN "constructor"
                        ELSE IF first.cat = "isl" /\ first.cname = clazz.name
                            THEN "member_method"
                        ELSE "static_method"
            names == SignatureNames(method, IF expected = "member_method" THEN 2 ELSE 1)
        IN  /\ hdrFn[3] = expected
            /\ HeaderNames(hdrDecl[1]) = names
            /\ hdrImpl # <<>> => HeaderNames(hdrImpl[1]) = names
            /\ hdrDecl[1].const = (expected = "member_method")

\* C12 witness: isl_set_intersect(set1, set2) was printed for isl_set as a
\* member method taking set2 only.
C12_Witness ==
    /\ hdrFn = <<n_set, f_set_intersect, "member_method">>
    /\ hdrImpl # <<>>
    /\ HeaderNames(hdrImpl[1]) = <<"set2">>

(***************************************************************************)
(* The emitted wrapper classes at run time.                                *)
(*                                                                         *)
(* The text the generator prints for the pointer functions and the         *)
(* downcast helpers is kept as a list of statements; Exec runs such a list *)
(* on a wrapper.  isl objects are reference counted: isl_*_copy returns    *)
(* the same handle with one more reference, or NULL when it fails.         *)
(***************************************************************************)
NullPtr == 0
MaxHandles == 1
MaxRefs == 2

Handles == 1..MaxHandles
Wrappers == {"w1", "w2"}
n_tag_error == s_isl_ \o <<"n", "o", "d", "e", "_", "e", "r", "r", "o", "r">>
Tags == {n_band, n_leaf, n_tag_error}

St(s, then) == [s |-> s, then |-> then]

\* print_throw_NULL_input
print_throw_NULL_input == "throw_NULL_input"

\* a release() that leaves ptr in place
print_ptr_impl_keep(clazz) ==
    IF is_type_subclass(clazz) THEN [m \in {} |-> <<>>]
    ELSE [m \in {"copy", "get", "release", "is_null", "bool"} |->
            IF m = "copy" THEN <<St("return_isl_copy_ptr", "")>>
            ELSE IF m = "get" THEN <<St("return_ptr", "")>>
            ELSE IF m = "release"
                THEN <<St("tmp_is_ptr", ""), St("return_tmp", "")>>
            ELSE IF m = "is_null" THEN <<St("return_ptr_eq_nullptr", "")>>
            ELSE <<St("return_not_is_null", "")>>]

\* print_destructor_impl: if (ptr) <name>_free(ptr)
print_destructor_impl(clazz) ==
    IF is_type_subclass(clazz) THEN <<>> ELSE <<St("if_ptr_free_ptr", "")>>

\* print_ptr_impl: copy(), get(), release(), is_null(), operator bool()
print_ptr_impl(clazz) ==
    IF is_type_subclass(clazz) THEN [m \in {} |-> <<>>]
    ELSE [m \in {"copy", "get", "release", "is_null", "bool"} |->
            IF m = "copy" THEN <<St("return_isl_copy_ptr", "")>>
            ELSE IF m = "get" THEN <<St("return_ptr", "")>>
            ELSE IF m = "release"
                THEN <<St("tmp_is_ptr", ""), St("ptr_is_nullptr", ""),
                       St("return_tmp", "")>>
            ELSE IF m = "is_null" THEN <<St("return_ptr_eq_nullptr", "")>>
            ELSE <<St("return_not_is_null", "")>>]

\* an as<T>() that converts without asking isa<T>()
print_downcast_impl_noteq(clazz, noexc) ==
    IF ~clazz.fn_type THEN [m \in {} |-> <<>>]
    ELSE [m \in {"isa", "as"} |->
            IF m = "isa"
            THEN <<St("if_is_null",
                      IF noexc THEN "return_boolean" ELSE print_throw_NULL_input),
                   St("return_fn_type_get_eq_T_type", "")>>
            ELSE <<St("return_T_copy", "")>>]

\* print_downcast_impl: isa<T>() and as<T>()
print_downcast_impl_in(clazz, noexc) ==
    IF ~clazz.fn_type THEN [m \in {} |-> <<>>]
    ELSE [m \in {"isa", "as"} |->
            IF m = "isa"
            THEN <<St("if_is_null",
                      IF noexc THEN "return_boolean" ELSE print_throw_NULL_input),
                   St("return_fn_type_get_eq_T_type", "")>>
            ELSE (IF noexc THEN <<St("if_is_null", "T")>> ELSE <<>>)
                 \o <<St("return_isa_T_copy_T", "")>>]

\* a type constant that names the superclass
print_subclass_type_super(clazz) ==
    IF ~is_type_subclass(clazz) THEN <<>> ELSE <<clazz.name>>

\* print_subclass_type: "static const auto type = <subclass_name>"
print_subclass_type(clazz) ==
    IF ~is_type_subclass(clazz) THEN <<>> ELSE <<clazz.subclass_name>>

\* the class whose pointer functions and downcast helpers a wrapper of
\* class "key" uses: a type based subclass inherits them
storage_class(map, key) ==
    IF is_type_subclass(map[key])
    THEN map[CHOOSE k \in DOMAIN map :
                map[k].subclass_name = map[key].name /\ ~is_type_subclass(map[k])]
    ELSE map[key]

\* all member functions print_class_impl emits for the storage of "clazz"
EmittedMembers(clazz, noexc) ==
    LET ptrs == print_ptr_impl(clazz)
        casts == print_downcast_impl_in(clazz, noexc)
    IN  [m \in (DOMAIN ptrs) \cup (DOMAIN casts) |->
            IF m \in DOMAIN ptrs THEN ptrs[m] ELSE casts[m]]

\* isl_*_copy: NULL stays NULL; a copy may fail and then yields NULL
isl_copy(hp, h, ok) ==
    IF h = NullPtr \/ ~ok THEN [heap |-> hp, ptr |-> NullPtr]
    ELSE [heap |-> [hp EXCEPT ![h].refs = @ + 1], ptr |-> h]

\* isl_*_free
isl_free(hp, h) ==
    IF h = NullPtr THEN hp ELSE [hp EXCEPT ![h].refs = @ - 1]

\* the type function of the superclass (isl_*_get_type)
fn_type(hp, h) == IF h = NullPtr THEN n_tag_error ELSE hp[h].tag

\* explicit operator bool of isl::boolean; "conv" is what it does on the
\* error value
boolean2bool(b, conv) ==
    IF b = "error" THEN (IF conv = "abort" THEN "abort" ELSE "false") ELSE b

Bool2Str(b) == IF b THEN "true" ELSE "false"

\* The state of one call of an emitted member function: the wrapper's ptr,
\* the isl objects, the local "tmp", the value returned ("ret", a
\* one-element sequence once the function has returned), the failure
\* raised, and the number of calls of the type function; "T" is the
\* template argument and "copyOk" whether isl_*_copy succeeds.
CallEnv(ptr, hp, T, copyOk, conv, ntag) ==
    [ptr |-> ptr, heap |-> hp, tmp |-> NullPtr, ret |-> <<>>, raised |-> "none",
     T |-> T, copyOk |-> copyOk, conv |-> conv, tagCalls |-> ntag]

Fresh(env) == [env EXCEPT !.ret = <<>>, !.tmp = NullPtr]

RECURSIVE Exec(_, _, _, _)
Exec(code, stmts, i, env) ==
    IF i > Len(stmts) \/ env.ret # <<>> \/ env.raised # "none" THEN env
    ELSE
    LET st == stmts[i]
        next(e) == Exec(code, stmts, i + 1, e)
        call(m) == Exec(code, code[m], 1, Fresh(env))
        return(e, v) == [e EXCEPT !.ret = <<v>>, !.tmp = env.tmp]
    IN  CASE st.s = "return_isl_copy_ptr" ->
                LET c == isl_copy(env.heap, env.ptr, env.copyOk)
                IN  [env EXCEPT !.heap = c.heap, !.ret = <<c.ptr>>]
          [] st.s = "return_ptr" -> [env EXCEPT !.ret = <<env.ptr>>]
          [] st.s = "tmp_is_ptr" -> next([env EXCEPT !.tmp = env.ptr])
          [] st.s = "ptr_is_nullptr" -> next([env EXCEPT !.ptr = NullPtr])
          [] st.s = "return_tmp" -> [env EXCEPT !.ret = <<env.tmp>>]
          [] st.s = "return_ptr_eq_nullptr" ->
                [env EXCEPT !.ret = <<Bool2Str(env.ptr = NullPtr)>>]
          [] st.s = "return_not_is_null" ->
                LET n == call("is_null")
                IN  return(n, Bool2Str(n.ret[1] = "false"))
          [] st.s = "if_is_null" ->
                LET n == call("is_null")
                IN  IF n.ret[1] = "false" THEN next(env)
                    ELSE IF st.then = "return_boolean"
                        THEN [env EXCEPT !.ret = <<"error">>]
                    ELSE IF st.then = "throw_NULL_input"
                        THEN [env EXCEPT !.raised = "invalid"]
                    ELSE next(env)
          [] st.s = "return_fn_type_get_eq_T_type" ->
                LET g == call("get")
                    tag == fn_type(env.heap, g.ret[1])
                IN  [env EXCEPT !.tagCalls = @ + 1,
                                !.ret = <<Bool2Str(tag = env.T)>>]
          [] st.s = "return_isa_T_copy_T" ->
                LET a == call("isa")
                    b == IF a.raised # "none" THEN "raised"
                         ELSE boolean2bool(a.ret[1], env.conv)
                IN  IF b = "raised" THEN [a EXCEPT !.tmp = env.tmp]
                    ELSE IF b = "abort" THEN [a EXCEPT !.raised = "abort", !.ret = <<>>]
                    ELSE IF b = "true"
                        THEN LET c == Exec(code, code["copy"], 1, Fresh(a))
                             IN  return(c, c.ret[1])
                    ELSE return(a, NullPtr)
          [] st.s = "return_T_copy" ->
                LET c == call("copy")
                IN  return(c, c.ret[1])
          [] OTHER -> env

BaseModel == ClassMap(<<f_uset_from_set, f_uset_from_bset, f_uset_read>>)
RootClasses == {n_set, n_node}

ObjInit ==
    /\ noexceptions \in BOOLEAN
    /\ classes = BaseModel
    /\ convErr \in {"abort", "false"}
    /\ noexceptions \/ convErr = "false"
    /\ \E root \in RootClasses :
            obj = [w \in Wrappers |->
                    [ptr |-> NullPtr, cls |-> IF w = "w1" THEN root ELSE n_band,
                     live |-> TRUE]]
    /\ heap = [h \in Handles |-> [refs |-> 0, tag |-> n_tag_error]]
    /\ op = OpIdle
    /\ tagCalls = 0
    /\ typeIn = <<>> /\ typeOut = <<>>
    /\ aborted = FALSE /\ os = <<>> /\ gen = [pc |-> "idle", ci |-> <<>>]
    /\ hdrFn = <<>> /\ hdrDecl = <<>> /\ hdrImpl = <<>>
    /\ run = RunIdle

\* print_public_constructors_impl: the statements of the copy constructor
print_public_constructors_impl(clazz, noexc) ==
    LET subclass == is_type_subclass(clazz)
    IN  <<St(IF subclass THEN "super_obj" ELSE "ptr_is_obj_copy", "")>>
        \o (IF ~noexc /\ ~subclass
            THEN <<St("if_obj_ptr_and_not_ptr", "throw_last_error")>> ELSE <<>>)

\* a copy assignment that takes over the pointer of its argument
print_copy_assignment_impl_alias(clazz) ==
    <<St("this_ptr_is_obj_ptr", ""), St("return_this", "")>>

\* print_copy_assignment_impl: operator=(isl::<class> obj), obj by value
print_copy_assignment_impl(clazz) ==
    <<St("swap_this_ptr_obj_ptr", ""), St("return_this", "")>>

\* print_class_factory_impl: the statements of manage()
print_class_factory_impl_in(clazz, noexc) ==
    IF is_type_subclass(clazz) THEN <<>>
    ELSE (IF ~noexc THEN <<St("if_not_ptr", print_throw_NULL_input)>> ELSE <<>>)
         \o <<St("return_cppname_ptr", "")>>

\* a manage_copy() that wraps ptr itself
print_class_factory_impl_copy_adopt(clazz, noexc) ==
    IF is_type_subclass(clazz) THEN <<>>
    ELSE (IF ~noexc THEN <<St("if_not_ptr", print_throw_NULL_input),
                           St("ctx_is_get_ctx_ptr", "")>>
          ELSE <<>>)
         \o (IF ~noexc THEN <<St("if_not_ptr", "throw_last_error")>> ELSE <<>>)
         \o <<St("return_cppname_ptr", "")>>

\* a manage_copy() that checks the copy in both modes
print_class_factory_impl_copy_checked(clazz, noexc) ==
    IF is_type_subclass(clazz) THEN <<>>
    ELSE (IF ~noexc THEN <<St("if_not_ptr", print_throw_NULL_input),
                           St("ctx_is_get_ctx_ptr", "")>>
          ELSE <<>>)
         \o <<St("ptr_is_copy_ptr", ""), St("if_not_ptr", "throw_last_error"),
              St("return_cppname_ptr", "")>>

\* print_class_factory_impl: the statements of manage_copy()
print_class_factory_impl_copy(clazz, noexc) ==
    IF is_type_subclass(clazz) THEN <<>>
    ELSE (IF ~noexc THEN <<St("if_not_ptr", print_throw_NULL_input),
                           St("ctx_is_get_ctx_ptr", "")>>
          ELSE <<>>)
         \o <<St("ptr_is_copy_ptr", "")>>
         \o (IF ~noexc THEN <<St("if_not_ptr", "throw_last_error")>> ELSE <<>>)
         \o <<St("return_cppname_ptr", "")>>

\* the member functions of the class a wrapper variable uses
MembersOf(w) == EmittedMembers(storage_class(classes, obj[w].cls), noexceptions)

\* one call of member function m on wrapper w
Call(w, m, T, copyOk) ==
    Exec(MembersOf(w), MembersOf(w)[m], 1,
         CallEnv(obj[w].ptr, heap, T, copyOk, convErr, 0))

\* the operation before this one on w was w.release()
Prev(w) == op.name = "release" /\ op.on = w
ObjFrame == UNCHANGED <<noexceptions, classes, convErr, typeIn, typeOut,
                        hdrFn, hdrDecl, hdrImpl, aborted, os, gen, run>>

\* w = manage(ptr) for a pointer the caller owns (a new isl object or NULL)
Manage(w, ptr, tag) ==
    LET code == print_class_factory_impl_in(classes[obj[w].cls], noexceptions)
        throws == code[1].s = "if_not_ptr" /\ ptr = NullPtr
    IN  /\ code # <<>>
        /\ obj[w].live /\ obj[w].ptr = NullPtr
        /\ ptr # NullPtr => heap[ptr].refs = 0
        /\ tag = n_tag_error \/ obj[w].cls = n_node
        /\ heap' = IF ptr = NullPtr THEN heap
                   ELSE [heap EXCEPT ![ptr] = [refs |-> 1, tag |-> tag]]
        /\ obj' = IF throws THEN obj ELSE [obj EXCEPT ![w].ptr = ptr]
        /\ op' = OpRec("manage", w, <<>>, ptr,
                       IF throws THEN "invalid" ELSE "none", obj[w].ptr, Prev(w), TRUE)
        /\ tagCalls' = 0
        /\ ObjFrame

\* the statements of a factory function, from statement i on, applied to the
\* argument ptr: the heap, the pointer the wrapper gets and what is raised
RECURSIVE ExecFactory(_, _, _, _, _)
ExecFactory(code, i, hp, ptr, copyOk) ==
    IF i > Len(code) THEN [heap |-> hp, ptr |-> NullPtr, raised |-> "fell_off"]
    ELSE LET stmt == code[i]
         IN  CASE stmt.s = "if_not_ptr" ->
                    IF ptr = NullPtr
                    THEN [heap |-> hp, ptr |-> NullPtr,
                          raised |-> IF stmt.then = print_throw_NULL_input
                                     THEN "invalid" ELSE "last_error"]
                    ELSE ExecFactory(code, i + 1, hp, ptr, copyOk)
               [] stmt.s = "ptr_is_copy_ptr" ->
                    LET c == isl_copy(hp, ptr, copyOk)
                    IN  ExecFactory(code, i + 1, c.heap, c.ptr, copyOk)
               [] stmt.s = "return_cppname_ptr" ->
                    [heap |-> hp, ptr |-> ptr, raised |-> "none"]
               [] OTHER -> ExecFactory(code, i + 1, hp, ptr, copyOk)

\* w = manage_copy(ptr) for a pointer the caller holds a reference to
ManageCopy(w, ptr, copyOk) ==
    LET code == print_class_factory_impl_copy(classes[obj[w].cls], noexceptions)
        e == ExecFactory(code, 1, heap, ptr, copyOk)
    IN  /\ code # <<>>
        /\ obj[w].live /\ obj[w].ptr = NullPtr
        /\ ptr # NullPtr => heap[ptr].refs \in 1..(MaxRefs - 1)
        /\ heap' = e.heap
        /\ obj' = [obj EXCEPT ![w].ptr = e.ptr]
        /\ op' = OpRec("manage_copy", w, <<>>, ptr, e.raised, obj[w].ptr, Prev(w),
                       copyOk)
        /\ tagCalls' = 0
        /\ ObjFrame

\* w.release(), w.is_null(), w.get(), bool(w)
PtrCall(w, m) ==
    LET e == Call(w, m, <<>>, TRUE)
    IN  /\ m \in {"release", "is_null", "get", "bool"}
        /\ obj[w].live
        /\ obj' = [obj EXCEPT ![w].ptr = e.ptr]
        /\ heap' = e.heap
        /\ op' = OpRec(m, w, <<>>, e.ret[1], e.raised, obj[w].ptr, Prev(w), TRUE)
        /\ tagCalls' = 0
        /\ ObjFrame

\* w.isa<T>() for a type based subclass T of the class of w
Isa(w, T) ==
    LET e == Call(w, "isa", print_subclass_type(classes[T])[1], TRUE)
    IN  /\ "isa" \in DOMAIN MembersOf(w)
        /\ obj[w].live
        /\ is_type_subclass(classes[T])
        /\ obj' = [obj EXCEPT ![w].ptr = e.ptr]
        /\ heap' = e.heap
        /\ tagCalls' = e.tagCalls
        /\ op' = OpRec("isa", w, T, e.ret, e.raised, obj[w].ptr, Prev(w), TRUE)
        /\ ObjFrame

\* dst = w.as<T>(), dst being an empty variable of class T
As(w, T, dst, copyOk) ==
    LET e == Call(w, "as", print_subclass_type(classes[T])[1], copyOk)
    IN  /\ "as" \in DOMAIN MembersOf(w)
        /\ is_type_subclass(classes[T])
        /\ obj[w].live /\ obj[dst].live
        /\ dst # w /\ obj[dst].cls = T /\ obj[dst].ptr = NullPtr
        /\ obj[w].ptr # NullPtr => heap[obj[w].ptr].refs < MaxRefs
        /\ obj' = [obj EXCEPT ![w].ptr = e.ptr,
                              ![dst].ptr = IF e.ret = <<>> THEN NullPtr ELSE e.ret[1]]
        /\ heap' = e.heap
        /\ tagCalls' = e.tagCalls
        /\ op' = OpRec("as", w, T, e.ret, e.raised, obj[w].ptr, Prev(w), copyOk)
        /\ ObjFrame

\* a print_method_param_use that releases the receiver as well
print_method_param_use_release(param, load_from_this_ptr) ==
    LET type == param.type
        on == IF load_from_this_ptr THEN "this" ELSE param.name
    IN  IF extensions /\ isEnumeralType(type)
            THEN [u |-> "static_cast", on |-> param.name]
        ELSE IF isIntegerType(type) THEN [u |-> "value", on |-> param.name]
        ELSE IF is_string(type) THEN [u |-> "c_str", on |-> param.name]
        ELSE IF is_callback(type) THEN [u |-> "lambda_and_data", on |-> param.name]
        ELSE IF keeps(param) THEN [u |-> "get", on |-> on]
        ELSE [u |-> "release", on |-> on]

\* a print_method_param_use that borrows what the function takes
print_method_param_use_get(param, load_from_this_ptr) ==
    LET type == param.type
        on == IF load_from_this_ptr THEN "this" ELSE param.name
    IN  IF extensions /\ isEnumeralType(type)
            THEN [u |-> "static_cast", on |-> param.name]
        ELSE IF isIntegerType(type) THEN [u |-> "value", on |-> param.name]
        ELSE IF is_string(type) THEN [u |-> "c_str", on |-> param.name]
        ELSE IF is_callback(type) THEN [u |-> "lambda_and_data", on |-> param.name]
        ELSE IF load_from_this_ptr /\ ~keeps(param) THEN [u |-> "copy", on |-> on]
        ELSE [u |-> "get", on |-> on]

\* print_method_param_use
print_method_param_use(param, load_from_this_ptr) ==
    LET type == param.type
        on == IF load_from_this_ptr THEN "this" ELSE param.name
    IN  IF extensions /\ isEnumeralType(type)
            THEN [u |-> "static_cast", on |-> param.name]
        ELSE IF isIntegerType(type) THEN [u |-> "value", on |-> param.name]
        ELSE IF is_string(type) THEN [u |-> "c_str", on |-> param.name]
        ELSE IF is_callback(type) THEN [u |-> "lambda_and_data", on |-> param.name]
        ELSE IF keeps(param) THEN [u |-> "get", on |-> on]
        ELSE IF load_from_this_ptr THEN [u |-> "copy", on |-> on]
        ELSE [u |-> "release", on |-> on]

\* an object of the class of src can be bound to "const isl::<class of dst> &"
Converts(src, dst) ==
    \/ obj[src].cls = obj[dst].cls
    \/ storage_class(classes, obj[src].cls) = classes[obj[dst].cls]

\* the copy constructor of the class of dst applied to src: a type based
\* subclass hands obj to the copy constructor of its superclass
CopyConstructed(dst, src, copyOk) ==
    LET code == print_public_constructors_impl(
                    storage_class(classes, obj[dst].cls), noexceptions)
        c == Call(src, "copy", <<>>, copyOk)
        ptr == c.ret[1]
        throws == /\ \E i \in 1..Len(code) : code[i].s = "if_obj_ptr_and_not_ptr"
                  /\ obj[src].ptr # NullPtr /\ ptr = NullPtr
    IN  [heap |-> c.heap, ptr |-> ptr,
         raised |-> IF throws THEN "last_error" ELSE "none"]

\* the destructor of the class of w applied to a pointer: a type based
\* subclass has none of its own and runs the one of its superclass
Destructed(w, hp, ptr) ==
    LET code == print_destructor_impl(storage_class(classes, obj[w].cls))
    IN  IF code # <<>> /\ ptr # NullPtr THEN isl_free(hp, ptr) ELSE hp

\* the variable w goes out of scope
Destroy(w) ==
    /\ obj[w].live
    /\ heap' = Destructed(w, heap, obj[w].ptr)
    /\ obj' = [obj EXCEPT ![w].live = FALSE, ![w].ptr = NullPtr]
    /\ op' = OpRec("destroy", w, <<>>, <<>>, "none", obj[w].ptr, Prev(w), TRUE)
    /\ tagCalls' = 0
    /\ ObjFrame

\* isl::<class> w;
DefaultConstruct(w) ==
    /\ ~obj[w].live
    /\ obj' = [obj EXCEPT ![w].live = TRUE, ![w].ptr = NullPtr]
    /\ op' = OpRec("construct", w, <<>>, <<>>, "none", NullPtr, Prev(w), TRUE)
    /\ UNCHANGED heap
    /\ tagCalls' = 0
    /\ ObjFrame

\* isl::<class> dst(src);
CopyConstruct(dst, src, copyOk) ==
    LET c == CopyConstructed(dst, src, copyOk)
    IN  /\ ~obj[dst].live /\ obj[src].live /\ Converts(src, dst)
        /\ obj[src].ptr # NullPtr => heap[obj[src].ptr].refs < MaxRefs
        /\ heap' = c.heap
        /\ obj' = IF c.raised # "none" THEN obj
                  ELSE [obj EXCEPT ![dst].live = TRUE, ![dst].ptr = c.ptr]
        /\ op' = OpRec("copy_construct", dst, <<>>, <<c.ptr>>, c.raised,
                       obj[src].ptr, Prev(dst), copyOk)
        /\ tagCalls' = 0
        /\ ObjFrame

\* dst = src; the parameter of operator= is copy constructed from src, the
\* body exchanges the pointers, and the parameter is destroyed
CopyAssign(dst, src, copyOk) ==
    LET c == CopyConstructed(dst, src, copyOk)
        code == print_copy_assignment_impl(classes[obj[dst].cls])
        swaps == code[1].s = "swap_this_ptr_obj_ptr"
        param == IF swaps THEN obj[dst].ptr ELSE c.ptr
    IN  /\ obj[dst].live /\ obj[src].live /\ Converts(src, dst)
        /\ obj[src].ptr # NullPtr => heap[obj[src].ptr].refs < MaxRefs
        /\ heap' = IF c.raised # "none" THEN c.heap
                   ELSE Destructed(dst, c.heap, param)
        /\ obj' = IF c.raised # "none" THEN obj
                  ELSE [obj EXCEPT ![dst].ptr = c.ptr]
        /\ op' = OpRec("copy_assign", dst, <<>>, <<c.ptr>>, c.raised,
                       obj[dst].ptr, Prev(dst), copyOk)
        /\ tagCalls' = 0
        /\ ObjFrame

\* w is passed to an isl function, as the receiver of a member call
\* (is_this) or as an argument, which the method receives by value; the
\* isl function frees what it takes
PassArgument(w, keep, is_this, copyOk) ==
    LET param == Par("arg", Ty("isl", classes[obj[w].cls].name), keep)
        use == print_method_param_use(param, is_this).u
        c == Call(w, "copy", <<>>, copyOk)
        copied == (use = "copy") \/ ~is_this
        passed == IF use = "get" THEN NullPtr ELSE c.ret[1]
        hp == IF copied THEN c.heap ELSE heap
        thrown == /\ ~is_this /\ ~noexceptions
                  /\ obj[w].ptr # NullPtr /\ c.ret[1] = NullPtr
    IN  /\ obj[w].live
        /\ obj[w].ptr # NullPtr => heap[obj[w].ptr].refs < MaxRefs
        /\ heap' = IF thrown THEN hp
                   ELSE IF use = "get" /\ ~is_this THEN Destructed(w, hp, c.ret[1])
                   ELSE isl_free(hp, passed)
        /\ UNCHANGED obj
        /\ op' = OpRec("pass", w, <<>>, <<use>>,
                       IF thrown THEN "last_error" ELSE "none",
                       obj[w].ptr, Prev(w), copyOk)
        /\ tagCalls' = 0
        /\ ObjFrame

ObjNext ==
    \/ \E w \in Wrappers, ptr \in Handles \cup {NullPtr}, tag \in Tags :
            Manage(w, ptr, tag)
    \/ \E w \in Wrappers, ptr \in Handles \cup {NullPtr}, copyOk \in BOOLEAN :
            ManageCopy(w, ptr, copyOk)
    \/ \E w \in Wrappers, m \in {"release", "is_null", "bool"} : PtrCall(w, m)
    \/ \E w \in Wrappers, T \in ClassKeys : Isa(w, T)
    \/ \E w, dst \in Wrappers, T \in ClassKeys, copyOk \in BOOLEAN :
            As(w, T, dst, copyOk)
    \/ \E w \in Wrappers : Destroy(w)
    \/ \E w \in Wrappers : DefaultConstruct(w)
    \/ \E dst, src \in Wrappers, copyOk \in BOOLEAN : CopyConstruct(dst, src, copyOk)
    \/ \E dst, src \in Wrappers, copyOk \in BOOLEAN : CopyAssign(dst, src, copyOk)
    \/ \E w \in Wrappers, keep, is_this, copyOk \in BOOLEAN :
            PassArgument(w, keep, is_this, copyOk)

SpecObj == ObjInit /\ [][ObjNext]_vars

(***************************************************************************)
(* Properties of the emitted wrapper classes.                              *)
(***************************************************************************)
\* C4: release() returns the handle held and leaves the wrapper empty, so
\* that is_null() right after it yields true and a second release()
\* returns a null handle and leaves the wrapper empty.
C4_ReleaseThenNull ==
    /\ op.name = "release" =>
        /\ op.res = op.pre
        /\ obj[op.on].ptr = NullPtr
        /\ op.prev => op.res = NullPtr
    /\ (op.name = "is_null" /\ op.prev) => op.res = "true"

\* C4 witness: a wrapper that holds an isl object was released twice.
C4_Witness ==
    /\ op.name = "release" /\ op.prev /\ op.res = NullPtr
    /\ \E h \in Handles : heap[h].refs > 0

\* the type function returns the tag value of subclass T for the object
\* the receiver of the last operation held
TagIs(T) == heap[op.pre].tag = classes[T].subclass_name

\* C5: isa<S>() on a non-null instance yields true when the type function
\* returns the tag value of S for it and false for every other tag value.
C5_IsaComparesTag ==
    (op.name = "isa" /\ op.pre # NullPtr) =>
        /\ op.raised = "none"
        /\ op.res = <<Bool2Str(TagIs(op.T))>>

\* C5 witness: isa<S>() answered true on an object with the tag of S.
C5_Witness ==
    /\ op.name = "isa" /\ op.pre # NullPtr
    /\ op.T = n_band /\ heap[op.pre].tag = n_band
    /\ op.res = <<"true">>

C7_NullReceiverDowncast ==
    (op.name \in {"isa", "as"} /\ op.pre = NullPtr) =>
        IF ~noexceptions THEN op.raised = "invalid"
        ELSE /\ op.raised = "none"
             /\ tagCalls = 0
             /\ op.name = "isa" => op.res \in {<<"error">>, <<"false">>}
             /\ op.name = "as" => op.res = <<NullPtr>>

\* C18: in exception mode manage(p) and manage_copy(p) raise "invalid input"
\* on a null p and manage_copy(p) raises from the last error when the copy
\* fails; manage(p) wraps p itself without taking a further reference, while
\* manage_copy(p) wraps a copy, which adds one reference to the object and
\* leaves the caller's reference in place; in status-code mode neither
\* raises; a type based subclass has no factory functions.
C18_FactoryFunctions ==
    /\ [](/\ \A k \in DOMAIN classes : is_type_subclass(classes[k]) =>
                /\ print_class_factory_impl_in(classes[k], noexceptions) = <<>>
                /\ print_class_factory_impl_copy(classes[k], noexceptions) = <<>>
          /\ op.name \in {"manage", "manage_copy"} =>
                /\ ~is_type_subclass(classes[obj[op.on].cls])
                /\ noexceptions => op.raised = "none"
                /\ (~noexceptions /\ op.res = NullPtr) =>
                        op.raised = "invalid" /\ obj[op.on].ptr = NullPtr
                /\ (~noexceptions /\ op.res # NullPtr) =>
                        op.raised = (IF op.name = "manage_copy" /\ ~op.copyOk
                                     THEN "last_error" ELSE "none")
                /\ op.raised # "none" => obj[op.on].ptr = NullPtr
                /\ (op.res # NullPtr /\ (op.name = "manage" \/ op.copyOk)) =>
                        obj[op.on].ptr = op.res
          /\ (op.name = "manage" /\ op.res # NullPtr) => heap[op.res].refs = 1
          /\ (op.name = "manage_copy" /\ op.res # NullPtr) =>
                heap[op.res].refs >= (IF op.copyOk THEN 2 ELSE 1))
    /\ [][(op'.name = "manage_copy" /\ op'.res # NullPtr) =>
                heap'[op'.res].refs =
                    heap[op'.res].refs + (IF op'.copyOk THEN 1 ELSE 0)]_vars

\* C18 witness: manage_copy() wrapped a copy of an object the caller still
\* holds a reference to.
C18_Witness ==
    /\ op.name = "manage_copy" /\ op.res # NullPtr /\ op.copyOk
    /\ ~noexceptions
    /\ obj[op.on].ptr = op.res /\ heap[op.res].refs = 2
    /\ \A w \in Wrappers : w # op.on => obj[w].ptr = NullPtr

(***************************************************************************)
(* The body print_method_impl prints for one function, as a list of        *)
(* statements.                                                             *)
(***************************************************************************)
\* the terms of the condition of print_argument_validity_check, from
\* parameter i (from 0)
RECURSIVE validity_terms(_, _, _)
validity_terms(method, kind, i) ==
    IF i >= Len(method.params) THEN <<>>
    ELSE LET param == method.params[i + 1]
             type == param.type
             is_this == i = 0 /\ kind = "member_method"
         IN  (IF ~is_this /\ (is_isl_ctx(type) \/ ~is_isl_type(type)) THEN <<>>
              ELSE IF is_this THEN <<"ptr">>
              ELSE <<param.name>>)
             \o validity_terms(method, kind, i + 1)

\* a check that leaves the receiver out
print_argument_validity_check_args(method, kind, noexc) ==
    IF noexc THEN <<>>
    ELSE LET terms == validity_terms(method, "static_method", 1)
         IN  IF terms = <<>> THEN <<>>
             ELSE <<[s |-> "if_null_throw_NULL_input", terms |-> terms]>>

\* a check printed in both modes
print_argument_validity_check_always(method, kind, noexc) ==
    LET terms == validity_terms(method, kind, 0)
    IN  IF terms = <<>> THEN <<>>
        ELSE <<[s |-> "if_null_throw_NULL_input", terms |-> terms]>>

\* print_argument_validity_check
print_argument_validity_check(method, kind, noexc) ==
    IF noexc THEN <<>>
    ELSE LET terms == validity_terms(method, kind, 0)
         IN  IF terms = <<>> THEN <<>>
             ELSE <<[s |-> "if_null_throw_NULL_input", terms |-> terms]>>

\* the first parameter of isl object type, from parameter i (from 0)
RECURSIVE first_isl_param(_, _)
first_isl_param(method, i) ==
    IF i >= Len(method.params) THEN <<>>
    ELSE IF is_isl_type(method.params[i + 1].type) THEN <<method.params[i + 1].name>>
    ELSE first_isl_param(method, i + 1)

print_save_ctx(method, kind, noexc) ==
    IF noexc \/ kind = "member_method" \/ is_isl_ctx(method.params[1].type)
        \/ first_isl_param(method, 0) = <<>>
    THEN <<>>
    ELSE <<[s |-> "ctx_is_get_ctx", of |-> first_isl_param(method, 0)[1]]>>

print_method_ctx(method, kind) ==
    IF kind = "member_method" THEN "get_ctx()"
    ELSE IF is_isl_ctx(method.params[1].type) THEN method.params[1].name
    ELSE "ctx"

print_on_error_continue(method, kind, noexc) ==
    IF noexc THEN <<>>
    ELSE <<[s |-> "on_error_continue", ctx |-> print_method_ctx(method, kind)]>>

\* a lambda that reports success after it caught an exception
print_wrapped_call_ok(rtype, noexc) ==
    [guarded |-> ~noexc,
     returns |-> IF is_isl_stat(rtype) THEN (IF noexc THEN "isl_stat(ret)" ELSE "isl_stat_ok")
                 ELSE IF is_isl_bool(rtype) /\ ~noexc THEN "ret ? isl_bool_true : isl_bool_false"
                 ELSE "ret.release()",
     caught |-> IF noexc THEN "none" ELSE "isl_stat_ok"]

\* print_wrapped_call and print_wrapped_call_noexceptions: whether the call
\* of the closure is guarded by try/catch, and how its result is returned
print_wrapped_call(rtype, noexc) ==
    [guarded |-> ~noexc,
     returns |-> IF is_isl_stat(rtype) THEN (IF noexc THEN "isl_stat(ret)" ELSE "isl_stat_ok")
                 ELSE IF is_isl_bool(rtype) /\ ~noexc THEN "ret ? isl_bool_true : isl_bool_false"
                 ELSE "ret.release()",
     caught |-> IF noexc THEN "none"
                ELSE IF is_isl_stat(rtype) THEN "isl_stat_error"
                ELSE IF is_isl_bool(rtype) THEN "isl_bool_error"
                ELSE "NULL"]

\* a lambda that wraps every argument with isl::manage
print_callback_local_manage(param, noexc) ==
    LET ptype == param.type
    IN  [s |-> "callback_local", name |-> param.name,
         wrap |-> "isl::manage",
         nargs |-> Len(ptype.cb) - 2,
         eptr |-> ~noexc,
         call |-> print_wrapped_call(ptype.cb[1], noexc)]

\* print_callback_local
print_callback_local(param, noexc) ==
    LET ptype == param.type
    IN  [s |-> "callback_local", name |-> param.name,
         wrap |-> IF callback_takes_arguments(ptype) THEN "isl::manage"
                  ELSE "isl::manage_copy",
         nargs |-> Len(ptype.cb) - 2,
         eptr |-> ~noexc,
         call |-> print_wrapped_call(ptype.cb[1], noexc)]

\* the first loop of print_method_impl: the locals of the callbacks, and
\* the number of parameters left for the call
RECURSIVE callback_locals(_, _, _, _)
callback_locals(method, i, num_params, noexc) ==
    IF i >= num_params THEN [locals |-> <<>>, num_params |-> num_params]
    ELSE LET param == method.params[i + 1]
             cb == is_callback(param.type)
             rest == callback_locals(method, i + 1,
                        IF cb THEN num_params - 1 ELSE num_params, noexc)
         IN  [locals |-> (IF cb THEN <<print_callback_local(param, noexc)>> ELSE <<>>)
                         \o rest.locals,
              num_params |-> rest.num_params]

\* the eptr checks of print_exceptional_execution_check.  "name" points into
\* a temporary std::string that is destroyed before it is printed; "read"
\* is what printing it yields: the parameter's name or something else.
RECURSIVE eptr_checks(_, _, _)
eptr_checks(method, i, read) ==
    IF i >= Len(method.params) THEN <<>>
    ELSE LET param == method.params[i + 1]
         IN  (IF ~is_callback(param.type) THEN <<>>
              ELSE <<[s |-> "if_eptr_rethrow",
                      data |-> IF read = "name" THEN param.name ELSE "?"]>>)
             \o eptr_checks(method, i + 1, read)

\* a check that does not test object results for NULL
print_exceptional_execution_check_neg(method, kind, noexc, read) ==
    IF noexc THEN <<>>
    ELSE LET return_type == method.ret
             check_neg == is_isl_stat(return_type) \/ is_isl_bool(return_type)
         IN  eptr_checks(method, 0, read)
             \o (IF ~check_neg THEN <<>>
                 ELSE <<[s |-> "if_res_neg_throw_last_error",
                         ctx |-> print_method_ctx(method, kind)]>>)

\* print_exceptional_execution_check
print_exceptional_execution_check(method, kind, noexc, read) ==
    IF noexc THEN <<>>
    ELSE LET return_type == method.ret
             check_neg == is_isl_stat(return_type) \/ is_isl_bool(return_type)
             check_null == is_isl_type(return_type)
         IN  eptr_checks(method, 0, read)
             \o (IF ~check_null /\ ~check_neg THEN <<>>
                 ELSE <<[s |-> IF check_neg THEN "if_res_neg_throw_last_error"
                               ELSE "if_not_res_throw_last_error",
                         ctx |-> print_method_ctx(method, kind)]>>)

print_method_impl(map, class_key, method, kind, noexc, read) ==
    LET clazz == map[class_key]
        return_type == method.ret
        rettype_str == type2cpp_in(return_type, noexc)
        returns_super == super2sub(clazz, rettype_str)
        cbs == callback_locals(method, 0, Len(method.params), noexc)
        has_callback == cbs.locals # <<>>
        uses == [i \in 1..cbs.num_params |->
                    print_method_param_use(method.params[i],
                                           i = 1 /\ kind = "member_method")]
    IN  print_argument_validity_check(method, kind, noexc)
        \o print_save_ctx(method, kind, noexc)
        \o print_on_error_continue(method, kind, noexc)
        \o cbs.locals
        \o <<[s |-> "res_is_call", fn |-> method.name, uses |-> uses]>>
        \o print_exceptional_execution_check(method, kind, noexc, read)
        \o <<IF kind = "constructor" THEN [s |-> "ptr_is_res"]
             ELSE IF is_isl_type(return_type) \/ (noexc /\ is_isl_bool(return_type))
                THEN (IF returns_super
                      THEN [s |-> "return_manage_res_as",
                            T |-> super2sub_type(clazz, rettype_str)]
                      ELSE [s |-> "return_manage_res"])
             ELSE IF has_callback THEN [s |-> "return_rettype_res"]
             ELSE IF is_string(return_type)
                THEN [s |-> "return_string_res", free |-> gives(method)]
             ELSE IF is_isl_enum(return_type) THEN [s |-> "return_static_cast_res"]
             ELSE [s |-> "return_res"]>>

\* isl_class::fn_to_str: the function <name>_to_str of a class
fn_to_str(clazz) ==
    Fn("to_str", t_str, <<Par("obj", Ty("isl", clazz.name), TRUE)>>, TRUE)

\* print_str_impl: the body of to_str()
print_str_impl(clazz) ==
    IF ~clazz.fn_to_str THEN <<>>
    ELSE <<[s |-> "res_is_call", fn |-> fn_to_str(clazz).name,
            uses |-> <<[u |-> "get", on |-> "this"]>>],
           [s |-> "if_not_res_return_empty"],
           [s |-> "return_string_res", free |-> TRUE]>>

(***************************************************************************)
(* One call of an emitted method.                                          *)
(***************************************************************************)
MaxCallbacks == 2
Exceptions == {"e1", "e2"}

\* the names of the wrapper parameters of a call: the parameters of isl
\* object type other than the receiver and isl::ctx
WrapperParams(method, kind) ==
    {method.params[i].name : i \in
        {j \in 1..Len(method.params) :
            /\ method.params[j].type.cat = "isl"
            /\ ~(j = 1 /\ kind = "member_method")}}

\* the values the isl function may return
Results(method) ==
    IF is_isl_stat(method.ret) THEN {-1, 0}
    ELSE IF is_isl_bool(method.ret) THEN {-1, 0, 1}
    ELSE {0, 1}

RunInit ==
    /\ noexceptions \in BOOLEAN
    /\ classes = BaseModel
    /\ run = RunIdle
    /\ typeIn = <<>> /\ typeOut = <<>>
    /\ aborted = FALSE /\ os = <<>> /\ gen = [pc |-> "idle", ci |-> <<>>]
    /\ hdrFn = <<>> /\ hdrDecl = <<>> /\ hdrImpl = <<>>
    /\ obj = ObjIdle /\ heap = ObjIdle /\ op = OpIdle
    /\ tagCalls = 0 /\ convErr = "false"

RunFrame == UNCHANGED <<noexceptions, genVars, objVars>>

Stmt == run.body[run.pc]
At(names) == run.st = "body" /\ run.pc <= Len(run.body) /\ Stmt.s \in names
CallbackLocals == {i \in 1..Len(run.body) : run.body[i].s = "callback_local"}

\* the caller calls the method printed for function "method" of class
\* "class_key"; "read" is what the generator read through "name"
StartCall(class_key, method, kind, this, args, read) ==
    /\ run.st = "idle"
    /\ \/ kind = "constructor" /\ method \in Range(classes[class_key].constructors)
       \/ /\ method \in Range(classes[class_key].methods)
          /\ kind = get_method_kind(classes[class_key], method)
    /\ kind # "member_method" => this = NullPtr
    /\ args \in [WrapperParams(method, kind) -> {NullPtr, 1}]
    /\ run' = RunRec(1, "body", class_key, method, kind,
                     print_method_impl(classes, class_key, method, kind,
                                       noexceptions, read),
                     this, args)
    /\ RunFrame

\* the caller calls to_str() of class "class_key"
StartToStr(class_key, this) ==
    /\ run.st = "idle"
    /\ print_str_impl(classes[class_key]) # <<>>
    /\ run' = RunRec(1, "body", class_key, fn_to_str(classes[class_key]), "to_str",
                     print_str_impl(classes[class_key]), this, <<>>)
    /\ RunFrame

\* if (!ptr || arg.is_null()) throw NULL input
CheckArguments ==
    /\ At({"if_null_throw_NULL_input"})
    /\ LET null(t) == IF t = "ptr" THEN run.this = NullPtr
                      ELSE run.args[t] = NullPtr
       IN  IF \E i \in 1..Len(Stmt.terms) : null(Stmt.terms[i])
           THEN run' = [run EXCEPT !.st = "done", !.raised = "invalid"]
           ELSE run' = [run EXCEPT !.pc = @ + 1]
    /\ RunFrame

\* the saved ctx, the on_error scope and the locals of a callback
Prologue ==
    /\ At({"ctx_is_get_ctx", "on_error_continue", "callback_local"})
    /\ run' = [run EXCEPT !.pc = @ + 1,
                          !.eptr = IF Stmt.s = "callback_local" THEN "none" ELSE @]
    /\ RunFrame

\* auto res = fn(...): the arguments are evaluated and the isl function
\* is entered
CallForeign ==
    /\ At({"res_is_call"})
    /\ LET released == {Stmt.uses[i].on : i \in
                          {j \in 1..Len(Stmt.uses) : Stmt.uses[j].u = "release"}}
       IN  run' = [run EXCEPT !.st = "isl", !.calls = @ + 1,
                      !.this = IF "this" \in released THEN NullPtr ELSE @,
                      !.args = [n \in DOMAIN run.args |->
                                  IF n \in released THEN NullPtr ELSE run.args[n]]]
    /\ RunFrame

\* the parameter of the running function called "name"
ParamNamed(name) ==
    CHOOSE p \in Range(run.fn.params) : p.name = name

\* what the closure of a callback may return: nothing (0) for a void closure,
\* a bool, an isl::stat or isl::boolean (-1 for error), or an object (its
\* pointer, NullPtr for none)
ClosureResults(rtype, noexc) ==
    IF is_isl_stat(rtype) THEN (IF noexc THEN {0, -1} ELSE {0})
    ELSE IF is_isl_bool(rtype) THEN (IF noexc THEN {1, 0, -1} ELSE {1, 0})
    ELSE {1, NullPtr}

\* the value of one of the return expressions print_wrapped_call prints
ReturnValue(expr, ret) ==
    CASE expr = "isl_stat_ok" -> 0
      [] expr = "isl_stat_error" -> -1
      [] expr = "isl_bool_error" -> -1
      [] expr = "NULL" -> NullPtr
      [] expr = "ret ? isl_bool_true : isl_bool_false" -> (IF ret = 1 THEN 1 ELSE 0)
      [] OTHER -> ret

\* One call of the lambda print_callback_local prints for parameter "param",
\* by the isl function, with argument "arg" (an object with one reference,
\* or NULL): the argument is wrapped, the closure is called and returns
\* "cret" or throws "outcome", the wrapper is destroyed.  The result is what
\* the lambda returns, what it caught ("none" if nothing), what left it
\* uncaught, and the references left on the object.
Lambda(local, param, map, noexc, arg, copyOk, outcome, cret) ==
    LET clazz == map[param.type.cb[2].cname]
        hp0 == [h \in {1} |-> [refs |-> 1, tag |-> n_tag_error]]
        w == IF local.wrap = "isl::manage"
             THEN ExecFactory(print_class_factory_impl_in(clazz, noexc), 1, hp0, arg,
                              TRUE)
             ELSE ExecFactory(print_class_factory_impl_copy(clazz, noexc), 1, hp0,
                              arg, copyOk)
        thrown == IF w.raised # "none" THEN w.raised
                  ELSE IF outcome # "ok" THEN outcome ELSE "none"
        hp1 == IF print_destructor_impl(clazz) # <<>> /\ w.ptr # NullPtr
               THEN isl_free(w.heap, w.ptr) ELSE w.heap
    IN  [ret |-> IF thrown = "none" THEN <<ReturnValue(local.call.returns, cret)>>
                 ELSE IF local.call.guarded
                 THEN <<ReturnValue(local.call.caught, cret)>> ELSE <<>>,
         caught |-> IF local.call.guarded THEN thrown ELSE "none",
         escaped |-> IF local.call.guarded THEN "none" ELSE thrown,
         called |-> w.raised = "none",
         cret |-> IF thrown = "none" THEN <<cret>> ELSE <<>>,
         wrap |-> local.wrap, arg |-> arg, took |-> callback_takes_arguments(param.type),
         refs |-> IF arg = NullPtr THEN 0 ELSE hp1[arg].refs]

\* the isl function calls the lambda, which calls the closure; the closure
\* returns ("ok") or, in bindings with exceptions, throws
Trampoline(outcome, arg, copyOk, cret) ==
    /\ run.st = "isl" /\ CallbackLocals # {} /\ run.ncb < MaxCallbacks
    /\ LET local == run.body[CHOOSE i \in CallbackLocals : TRUE]
           param == ParamNamed(local.name)
           e == Lambda(local, param, classes, noexceptions, arg, copyOk, outcome,
                       cret)
       IN  /\ outcome # "ok" => local.call.guarded
           /\ cret \in ClosureResults(param.type.cb[1], noexceptions)
           /\ run' = [run EXCEPT !.ncb = @ + 1,
                         !.eptr = IF e.caught # "none" THEN e.caught ELSE @,
                         !.writes = IF e.caught # "none" THEN @ + 1 ELSE @,
                         !.cb = e]
    /\ RunFrame

\* the isl function returns
ForeignReturn(res) ==
    /\ run.st = "isl"
    /\ res \in Results(run.fn)
    /\ run' = [run EXCEPT !.st = "body", !.pc = @ + 1, !.res = res]
    /\ RunFrame

\* if (<name>_data.eptr) std::rethrow_exception(<name>_data.eptr)
CheckEptr ==
    /\ At({"if_eptr_rethrow"})
    /\ LET declared == \E i \in CallbackLocals : run.body[i].name = Stmt.data
           drains == IF declared THEN run.drains + 1 ELSE run.drains
       IN  IF declared /\ run.eptr # "none"
           THEN run' = [run EXCEPT !.st = "done", !.raised = run.eptr,
                                   !.drains = drains]
           ELSE run' = [run EXCEPT !.pc = @ + 1, !.drains = drains]
    /\ RunFrame

\* if (res < 0) / if (!res) throw exception::create_from_last_error(ctx)
CheckResult ==
    /\ At({"if_res_neg_throw_last_error", "if_not_res_throw_last_error"})
    /\ LET failed == IF Stmt.s = "if_res_neg_throw_last_error" THEN run.res < 0
                     ELSE run.res = 0
       IN  IF failed THEN run' = [run EXCEPT !.st = "done", !.raised = "last_error"]
           ELSE run' = [run EXCEPT !.pc = @ + 1]
    /\ RunFrame

\* char *Tmp = <fn_to_str>(get()); if (!Tmp) return "";
ReturnEmpty ==
    /\ At({"if_not_res_return_empty"})
    /\ IF run.res = NullPtr
       THEN run' = [run EXCEPT !.st = "done", !.ret = <<"return_empty", run.res>>]
       ELSE run' = [run EXCEPT !.pc = @ + 1]
    /\ RunFrame

\* manage(res).as<S>() in a method of the type based subclass of key
\* "class_key": res is NULL or an object of type "tag" with one reference,
\* which manage() adopts; the temporary is destroyed after as<S>() has
\* returned.  "conv" is what bool(isl::boolean) does on the error value.
ManageAs(map, class_key, noexc, res, tag, copyOk, conv) ==
    LET storage == storage_class(map, class_key)
        members == EmittedMembers(storage, noexc)
        hp0 == [h \in {1} |-> [refs |-> 1, tag |-> tag]]
        m == ExecFactory(print_class_factory_impl_in(storage, noexc), 1, hp0, res,
                         TRUE)
        e == Exec(members, members["as"], 1,
                  CallEnv(m.ptr, m.heap, print_subclass_type(map[class_key])[1],
                          copyOk, conv, 0))
        hp1 == IF print_destructor_impl(storage) # <<>> /\ e.ptr # NullPtr
               THEN isl_free(e.heap, e.ptr) ELSE e.heap
    IN  IF m.raised # "none"
        THEN [ret |-> <<>>, raised |-> m.raised, refs |-> hp0[1].refs, tag |-> tag,
              T |-> map[class_key].subclass_name, copyOk |-> copyOk]
        ELSE [ret |-> e.ret, raised |-> e.raised,
              refs |-> hp1[1].refs - (IF res = NullPtr THEN 1 ELSE 0), tag |-> tag,
              T |-> map[class_key].subclass_name, copyOk |-> copyOk]

\* ptr = res, or return ... res.  "std::string tmp(res)" with a null res is
\* undefined: "ub" is what it does, return or throw std::logic_error.
Return(ub, tag, copyOk, conv) ==
    /\ At({"ptr_is_res", "return_manage_res", "return_manage_res_as",
           "return_rettype_res", "return_string_res", "return_static_cast_res",
           "return_res"})
    /\ ub = "throws" => (Stmt.s = "return_string_res" /\ run.res = NullPtr)
    /\ Stmt.s # "return_manage_res_as" =>
            (tag = n_tag_error /\ copyOk /\ conv = "false")
    /\ Stmt.s = "return_manage_res_as" =>
            /\ tag = n_tag_error <=> run.res = NullPtr
            /\ conv = "abort" => (noexceptions /\ run.res = NullPtr)
    /\ IF ub = "throws"
       THEN run' = [run EXCEPT !.st = "done", !.raised = "logic_error"]
       ELSE IF Stmt.s = "return_manage_res_as"
       THEN LET e == ManageAs(classes, run.cls, noexceptions, run.res, tag, copyOk,
                              conv)
            IN  run' = [run EXCEPT !.st = "done", !.as = e, !.raised = e.raised,
                           !.ret = IF e.raised = "none" THEN <<Stmt.s, run.res>>
                                   ELSE <<>>]
       ELSE run' = [run EXCEPT !.st = "done", !.ret = <<Stmt.s, run.res>>,
                       !.this = IF Stmt.s = "ptr_is_res" THEN run.res ELSE @]
    /\ RunFrame

RunNext ==
    \/ \E k \in ClassKeys, f \in AllFns,
          kind \in {"constructor", "member_method", "static_method"},
          this \in {NullPtr, 1}, read \in {"name", "other"} :
            \E args \in [WrapperParams(f, kind) -> {NullPtr, 1}] :
                StartCall(k, f, kind, this, args, read)
    \/ \E k \in ClassKeys, this \in {NullPtr, 1} : StartToStr(k, this)
    \/ CheckArguments
    \/ Prologue
    \/ CallForeign
    \/ \E outcome \in {"ok"} \cup Exceptions, arg \in {NullPtr, 1},
          copyOk \in BOOLEAN, cret \in {-1, 0, 1} :
            Trampoline(outcome, arg, copyOk, cret)
    \/ \E res \in {-1, 0, 1} : ForeignReturn(res)
    \/ CheckEptr
    \/ CheckResult
    \/ ReturnEmpty
    \/ \E ub \in {"returns", "throws"}, tag \in Tags, copyOk \in BOOLEAN,
          conv \in {"abort", "false"} :
            Return(ub, tag, copyOk, conv)

SpecRun == RunInit /\ [][RunNext]_vars

(***************************************************************************)
(* Properties of the emitted method bodies.                                *)
(***************************************************************************)
\* the receiver or one of the wrapper arguments was null at the call
NullInput ==
    \/ run.kind = "member_method" /\ run.this0 = NullPtr
    \/ \E n \in DOMAIN run.args0 : run.args0[n] = NullPtr

\* C1: in exception mode a member method called on a null receiver, or with
\* a null wrapper argument, never enters the isl function and ends by
\* raising the "invalid input" failure.
C1_NullInputRaisesBeforeCall ==
    (~noexceptions /\ run.kind = "member_method" /\ NullInput) =>
        /\ run.calls = 0
        /\ run.st # "isl"
        /\ run.st = "done" => (run.raised = "invalid" /\ run.ret = <<>>)

\* C1 witness: a member method called on a null receiver with valid
\* arguments has raised "invalid input".
C1_Witness ==
    /\ ~noexceptions /\ run.kind = "member_method" /\ run.st = "done"
    /\ run.this0 = NullPtr
    /\ \A n \in DOMAIN run.args0 : run.args0[n] # NullPtr
    /\ run.raised = "invalid" /\ run.calls = 0

\* C2: in status-code mode no method body holds a null check, no invalid
\* input failure is raised, and every call, also one on a null receiver,
\* enters the isl function.
C2_NoCheckInStatusMode ==
    (noexceptions /\ run.st # "idle") =>
        /\ \A i \in 1..Len(run.body) : run.body[i].s # "if_null_throw_NULL_input"
        /\ run.raised # "invalid"
        /\ run.st = "done" => run.calls = 1

\* C2 witness: a member method called on a null receiver in status-code
\* mode has returned after calling the isl function.
C2_Witness ==
    /\ noexceptions /\ run.kind = "member_method" /\ run.st = "done"
    /\ run.this0 = NullPtr /\ run.calls = 1 /\ run.ret # <<>>

\* C3: in exception mode, when the closure of a callback argument has
\* raised during the call of the isl function, the method raises the
\* captured failure, whatever the isl function returned.
C3_CallbackFailureRethrown ==
    (~noexceptions /\ run.st = "done" /\ run.eptr # "none") =>
        (run.raised = run.eptr /\ run.ret = <<>>)

\* the captured failure is rethrown by the bodies in which the eptr check
\* names the callback's data
RethrownWhenNameIntact ==
    (\A i \in 1..Len(run.body) :
        run.body[i].s = "if_eptr_rethrow" => run.body[i].data # "?")
    => C3_CallbackFailureRethrown


\* the use the call statement of the running body makes of parameter "name"
UseOf(name) ==
    LET call == run.body[CHOOSE i \in 1..Len(run.body) : run.body[i].s = "res_is_call"]
    IN  {call.uses[i].u : i \in {j \in 1..Len(call.uses) : call.uses[j].on = name}}

\* C13: in the signature of the called method a parameter is passed by
\* const reference iff it is annotated keep, is a string or is a callback;
\* a wrapper parameter that is taken is passed by value, is handed to the
\* isl function through release(), and is null once the call was made.
C13_ParameterPassing ==
    run.kind \in {"constructor", "member_method", "static_method"} =>
        LET hdr == print_method_header(classes, run.cls, run.fn, TRUE, run.kind,
                                       noexceptions)
        IN  \A i \in 1..Len(hdr.params) :
                LET p == ParamNamed(hdr.params[i].name)
                IN  /\ hdr.params[i].constref <=>
                            (p.keeps \/ p.type.cat \in {"string", "callback"})
                    /\ (p.type.cat = "isl" /\ ~p.keeps) =>
                            /\ ~hdr.params[i].constref
                            /\ UseOf(p.name) = {"release"}
                            /\ run.calls > 0 => run.args[p.name] = NullPtr

\* C13 witness: isl_set_intersect(set1, set2) was called with a valid set2,
\* which is taken, and has returned.
C13_Witness ==
    /\ run.st = "done" /\ run.fn = f_set_intersect /\ run.calls = 1
    /\ run.args0["set2"] # NullPtr /\ run.args["set2"] = NullPtr


\* C14: a call of a member method leaves the receiver's ptr as it was at
\* the call, whether the isl function keeps or takes its first argument:
\* the body hands it get() or copy() of this, and the method is const.
C14_ReceiverUnchanged ==
    (run.st # "idle" /\ run.kind = "member_method") =>
        /\ run.this = run.this0
        /\ UseOf("this") = {IF run.fn.params[1].keeps THEN "get" ELSE "copy"}
        /\ print_method_header(classes, run.cls, run.fn, TRUE, run.kind,
                               noexceptions).const

\* C14 witness: isl_set_intersect, which takes its first argument, has
\* returned from a call on a valid receiver, which is still valid.
C14_Witness ==
    /\ run.st = "done" /\ run.fn = f_set_intersect /\ run.kind = "member_method"
    /\ run.calls = 1 /\ run.this0 # NullPtr /\ run.this = run.this0


(***************************************************************************)
(* The output stream of generate().                                        *)
(*                                                                         *)
(* The text is kept as a list of items [r, k, c, x, code]: the region an   *)
(* item is printed in ("ns" for the namespace lines, "fwd", "decl",        *)
(* "impl"), what it is, the key of the class it is printed for, a detail   *)
(* (the parent of a class, the function of a constructor or method), and   *)
(* for a definition the statements of its body.                            *)
(***************************************************************************)
ItemC(r, k, c, x, code) == [r |-> r, k |-> k, c |-> c, x |-> x, code |-> code]
Item(r, k, c, x) == ItemC(r, k, c, x, <<>>)

\* one item if the condition holds
Opt(cond, item) == IF cond THEN <<item>> ELSE <<>>

\* print_constructors_decl / print_constructors_impl, and print_methods_decl /
\* print_methods_impl: one item per function
FnItems(r, k, key, fns) == [i \in 1..Len(fns) |-> Item(r, k, key, fns[i].name)]

\* a print_class that gives every class a pointer field of its own
print_class_own_ptr(map, key) ==
    LET clazz == map[key]
        sub == is_type_subclass(clazz)
        D(k, x) == Item("decl", k, key, x)
    IN  <<D("comment", <<>>)>>
        \o Opt(~sub, D("factory", <<>>))
        \o <<D("class_open", IF sub THEN <<type2cpp_str(clazz.name)>> ELSE <<>>)>>
        \o Opt(sub, D("subclass_type", print_subclass_type(clazz)))
        \o Opt(~sub, D("friend_factory", <<>>))
        \o <<D("ptr_field", <<>>)>>
        \o <<D("protected_constructor", <<>>), D("public_constructors", <<>>)>>
        \o FnItems("decl", "constructor", key, clazz.constructors)
        \o <<D("copy_assignment", <<>>)>>
        \o Opt(~sub, D("destructor", <<>>))
        \o Opt(~sub, D("ptr", <<"copy", "get", "release", "is_null", "bool">>))
        \o Opt(clazz.fn_type, D("downcast", <<>>))
        \o <<D("get_ctx", <<>>)>>
        \o Opt(clazz.fn_to_str, D("str", <<>>))
        \o FnItems("decl", "method", key, clazz.methods)
        \o <<D("isl_ptr_t", <<>>), D("class_close", <<>>)>>

\* print_class: the declarations printed for the class of key "key"
print_class(map, key) ==
    LET clazz == map[key]
        sub == is_type_subclass(clazz)
        D(k, x) == Item("decl", k, key, x)
    IN  <<D("comment", <<>>)>>
        \o Opt(~sub, D("factory", <<>>))
        \o <<D("class_open", IF sub THEN <<type2cpp_str(clazz.name)>> ELSE <<>>)>>
        \o Opt(sub, D("subclass_type", print_subclass_type(clazz)))
        \o Opt(~sub, D("friend_factory", <<>>))
        \o Opt(~sub, D("ptr_field", <<>>))
        \o <<D("protected_constructor", <<>>), D("public_constructors", <<>>)>>
        \o FnItems("decl", "constructor", key, clazz.constructors)
        \o <<D("copy_assignment", <<>>)>>
        \o Opt(~sub, D("destructor", <<>>))
        \o Opt(~sub, D("ptr", <<"copy", "get", "release", "is_null", "bool">>))
        \o Opt(clazz.fn_type, D("downcast", <<>>))
        \o <<D("get_ctx", <<>>)>>
        \o Opt(clazz.fn_to_str, D("str", <<>>))
        \o FnItems("decl", "method", key, clazz.methods)
        \o <<D("isl_ptr_t", <<>>), D("class_close", <<>>)>>

\* the statements of the pointer functions, and of isa() and as()
ptr_code(clazz) ==
    LET ptrs == print_ptr_impl(clazz)
    IN  ptrs["copy"] \o ptrs["get"] \o ptrs["release"] \o ptrs["is_null"]
        \o ptrs["bool"]
downcast_code(clazz, noexc) ==
    LET casts == print_downcast_impl_in(clazz, noexc)
    IN  casts["isa"] \o casts["as"]

\* print_constructors_impl and print_methods_impl: print_method_impl for
\* every function
ImplItems(map, key, k, fns, noexc, read) ==
    [i \in 1..Len(fns) |->
        ItemC("impl", k, key, fns[i].name,
              print_method_impl(map, key, fns[i],
                                IF k = "constructor" THEN "constructor"
                                ELSE get_method_kind(map[key], fns[i]),
                                noexc, read))]

\* a print_class_impl that follows the order of print_class
print_class_impl_as_declared(map, key, noexc, read) ==
    LET clazz == map[key]
        sub == is_type_subclass(clazz)
        I(k, code) == ItemC("impl", k, key, <<>>, code)
    IN  <<I("comment", <<>>)>>
        \o Opt(~sub, I("factory", print_class_factory_impl_in(clazz, noexc)
                                  \o print_class_factory_impl_copy(clazz, noexc)))
        \o <<I("protected_constructor", <<>>),
             I("public_constructors", print_public_constructors_impl(clazz, noexc))>>
        \o ImplItems(map, key, "constructor", clazz.constructors, noexc, read)
        \o <<I("copy_assignment", <<>>)>>
        \o Opt(~sub, I("destructor", <<>>))
        \o Opt(~sub, I("ptr", ptr_code(clazz)))
        \o Opt(clazz.fn_type, I("downcast", downcast_code(clazz, noexc)))
        \o <<I("get_ctx", <<>>)>>
        \o Opt(extensions /\ clazz.fn_to_str, I("operators", <<>>))
        \o Opt(extensions /\ clazz.fn_to_str, I("str", print_str_impl(clazz)))
        \o ImplItems(map, key, "method", clazz.methods, noexc, read)

\* print_class_impl: the implementations printed for the class of key "key"
print_class_impl(map, key, noexc, read) ==
    LET clazz == map[key]
        sub == is_type_subclass(clazz)
        I(k, code) == ItemC("impl", k, key, <<>>, code)
    IN  <<I("comment", <<>>)>>
        \o Opt(~sub, I("factory", print_class_factory_impl_in(clazz, noexc)
                                  \o print_class_factory_impl_copy(clazz, noexc)))
        \o <<I("public_constructors", print_public_constructors_impl(clazz, noexc)),
             I("protected_constructor", <<>>)>>
        \o ImplItems(map, key, "constructor", clazz.constructors, noexc, read)
        \o <<I("copy_assignment", <<>>)>>
        \o Opt(~sub, I("destructor", <<>>))
        \o Opt(~sub, I("ptr", ptr_code(clazz)))
        \o Opt(extensions /\ clazz.fn_to_str, I("operators", <<>>))
        \o Opt(extensions /\ clazz.fn_to_str, I("str", print_str_impl(clazz)))
        \o Opt(clazz.fn_type, I("downcast", downcast_code(clazz, noexc)))
        \o <<I("get_ctx", <<>>)>>
        \o ImplItems(map, key, "method", clazz.methods, noexc, read)

\* std::map<std::string, isl_class> is iterated in the order of its keys
Alphabet == <<"_", "a", "b", "c", "d", "e", "f", "g", "h", "i", "j", "k", "l", "m",
              "n", "o", "p", "q", "r", "s", "t", "u", "v", "w", "x", "y", "z">>
CharRank(c) == CHOOSE i \in 1..Len(Alphabet) : Alphabet[i] = c

\* std::string::operator<
RECURSIVE string_less(_, _)
string_less(a, b) ==
    IF b = <<>> THEN FALSE
    ELSE IF a = <<>> THEN TRUE
    ELSE IF Head(a) # Head(b) THEN CharRank(Head(a)) < CharRank(Head(b))
    ELSE string_less(Tail(a), Tail(b))

\* classes.begin(): <<>> stands for classes.end()
map_begin(map) ==
    IF DOMAIN map = {} THEN <<>>
    ELSE <<CHOOSE k \in DOMAIN map : \A o \in DOMAIN map \ {k} : string_less(k, o)>>

\* ++ci
map_next(map, ci) ==
    LET after == {k \in DOMAIN map : string_less(ci[1], k)}
    IN  IF after = {} THEN <<>>
        ELSE <<CHOOSE k \in after : \A o \in after \ {k} : string_less(k, o)>>

\* the class map after print_constructors_decl of class "key": every
\* is_implicit_conversion looks the parameter's class up with operator[]
RECURSIVE constructors_touch(_, _, _)
constructors_touch(map, cons, i) ==
    IF i > Len(cons) THEN map
    ELSE LET type == cons[i].params[1].type
         IN  constructors_touch(
                IF Len(cons[i].params) = 1 /\ is_isl_type(type) /\ ~is_isl_ctx(type)
                THEN is_subclass_map(map, type) ELSE map,
                cons, i + 1)

\* whether printing the headers of the functions of a class reaches die()
class_dies(clazz, noexc) ==
    \/ \E cons \in Range(clazz.constructors) : header_dies(cons, "constructor", noexc)
    \/ \E method \in Range(clazz.methods) :
            header_dies(method, get_method_kind(clazz, method), noexc)

\* type2cpp(const isl_class &): substr(4) of a name shorter than the prefix
\* throws std::out_of_range, which nothing catches
class_throws(clazz) == Len(clazz.subclass_name) < IslPrefixLen

\* generate(): the lines that open the namespaces
generate_open(noexc) ==
    <<Item("ns", "open_isl", <<>>, <<>>)>>
    \o Opt(noexc, Item("ns", "open_noexceptions", <<>>, <<>>))

\* a generate() that closes the inline namespace in both modes
generate_close_always(noexc) ==
    <<Item("ns", "close_noexceptions", <<>>, <<>>),
      Item("ns", "close_isl", <<>>, <<>>)>>

\* generate(): the lines that close the namespaces
generate_close(noexc) ==
    Opt(noexc, Item("ns", "close_noexceptions", <<>>, <<>>))
    \o <<Item("ns", "close_isl", <<>>, <<>>)>>

\* Init of generate(): nothing was printed
StreamInit ==
    /\ noexceptions \in BOOLEAN
    /\ classes \in InputModels
    /\ gen = [pc |-> "start", ci |-> <<>>]
    /\ typeIn = <<>> /\ typeOut = <<>>
    /\ aborted = FALSE /\ os = <<>>
    /\ hdrFn = <<>> /\ hdrDecl = <<>> /\ hdrImpl = <<>>
    /\ obj = ObjIdle /\ heap = ObjIdle /\ op = OpIdle
    /\ tagCalls = 0 /\ convErr = "false"
    /\ run = RunIdle

StreamFrame == UNCHANGED <<noexceptions, typeIn, typeOut, hdrFn, hdrDecl, hdrImpl,
                           objVars, run>>

\* generate(): the namespace lines, then print_forward_declarations up to
\* its loop
OpenNamespaces ==
    /\ gen.pc = "start"
    /\ os' = generate_open(noexceptions) \o <<Item("fwd", "comment", <<>>, <<>>)>>
    /\ gen' = [pc |-> "fwd", ci |-> map_begin(classes)]
    /\ UNCHANGED <<classes, aborted>>
    /\ StreamFrame

\* print_forward_declarations: one turn of the loop, print_class_forward_decl
PrintClassForwardDecl ==
    /\ gen.pc = "fwd" /\ gen.ci # <<>> /\ ~aborted
    /\ IF class_throws(classes[gen.ci[1]])
       THEN /\ aborted' = TRUE
            /\ UNCHANGED <<os, gen>>
       ELSE /\ os' = Append(os, Item("fwd", "class", gen.ci[1], <<>>))
            /\ gen' = [gen EXCEPT !.ci = map_next(classes, gen.ci)]
            /\ UNCHANGED aborted
    /\ UNCHANGED classes
    /\ StreamFrame

\* print_declarations: one turn of the loop, print_class
PrintClass ==
    /\ gen.pc = "decl" /\ gen.ci # <<>> /\ ~aborted
    /\ LET key == gen.ci[1]
           map == constructors_touch(classes, classes[key].constructors, 1)
       IN  IF class_throws(classes[key]) \/ class_dies(classes[key], noexceptions)
           THEN /\ aborted' = TRUE
                /\ UNCHANGED <<os, gen, classes>>
           ELSE /\ os' = os \o print_class(classes, key)
                /\ classes' = map
                /\ gen' = [gen EXCEPT !.ci = map_next(map, gen.ci)]
                /\ UNCHANGED aborted
    /\ StreamFrame

\* print_implementations: one turn of the loop, print_class_impl; "read" is
\* what the generator reads through "name" in
\* print_exceptional_execution_check
PrintClassImpl(read) ==
    /\ gen.pc = "impl" /\ gen.ci # <<>> /\ ~aborted
    /\ LET key == gen.ci[1]
           map == constructors_touch(classes, classes[key].constructors, 1)
       IN  IF class_throws(classes[key])
           THEN /\ aborted' = TRUE
                /\ UNCHANGED <<os, gen, classes>>
           ELSE /\ os' = os \o print_class_impl(classes, key, noexceptions, read)
                /\ classes' = map
                /\ gen' = [gen EXCEPT !.ci = map_next(map, gen.ci)]
                /\ UNCHANGED aborted
    /\ StreamFrame

\* the end of a loop of generate(): the next region starts, or the
\* namespaces are closed
EndOfLoop ==
    /\ gen.pc \in {"fwd", "decl", "impl"} /\ gen.ci = <<>>
    /\ IF gen.pc = "impl"
       THEN /\ os' = os \o generate_close(noexceptions)
            /\ gen' = [pc |-> "done", ci |-> <<>>]
       ELSE /\ os' = os
            /\ gen' = [pc |-> IF gen.pc = "fwd" THEN "decl" ELSE "impl",
                       ci |-> map_begin(classes)]
    /\ UNCHANGED <<classes, aborted>>
    /\ StreamFrame

StreamNext ==
    \/ OpenNamespaces
    \/ PrintClassForwardDecl
    \/ PrintClass
    \/ \E read \in {"name", "other"} : PrintClassImpl(read)
    \/ EndOfLoop

SpecStream == StreamInit /\ [][StreamNext]_vars


(***************************************************************************)
(* Properties of the output stream.                                        *)
(***************************************************************************)
RegionRank(r) == IF r = "fwd" THEN 1 ELSE IF r = "decl" THEN 2 ELSE 3

\* the positions of the namespace lines of kind k
NsAt(k) == {i \in 1..Len(os) : os[i].r = "ns" /\ os[i].k = k}

\* C15: in the stream no forward declaration follows a class declaration
\* and no class declaration follows an implementation; when generate() has
\* returned, the three regions lie between the line that opens namespace isl
\* and the one that closes it, and the inline namespace is opened right
\* after the first and closed right before the last iff noexceptions is set.
C15_ThreeRegionsInNamespace ==
    /\ \A i, j \in 1..Len(os) :
            (i < j /\ os[i].r # "ns" /\ os[j].r # "ns")
                => RegionRank(os[i].r) <= RegionRank(os[j].r)
    /\ gen.pc = "done" =>
        /\ NsAt("open_isl") = {1}
        /\ NsAt("close_isl") = {Len(os)}
        /\ NsAt("open_noexceptions") = IF noexceptions THEN {2} ELSE {}
        /\ NsAt("close_noexceptions") = IF noexceptions THEN {Len(os) - 1} ELSE {}
        /\ \A r \in {"fwd", "decl", "impl"} : \E i \in 1..Len(os) : os[i].r = r

\* C15 witness: generate() has returned in status-code mode, with the
\* implementations of isl_val printed before the two closing lines.
C15_Witness ==
    /\ gen.pc = "done" /\ noexceptions
    /\ os[Len(os) - 2].r = "impl" /\ os[Len(os) - 2].c = n_val
    /\ os[Len(os) - 1].k = "close_noexceptions"


\* the isl function of the call has returned
Returned == run.st = "done" /\ run.calls = 1

\* the result reports a failure: a negative isl_stat or isl_bool, or a null
\* object pointer
FailedResult ==
    \/ run.fn.ret.cat \in {"stat", "bool"} /\ run.res < 0
    \/ run.fn.ret.cat = "isl" /\ run.res = NullPtr

IsExceptionSite(stmt) ==
    \/ stmt.s \in {"if_null_throw_NULL_input", "if_eptr_rethrow",
                   "if_res_neg_throw_last_error", "if_not_res_throw_last_error"}
    \/ /\ stmt.s \in {"if_not_ptr", "if_is_null", "if_obj_ptr_and_not_ptr"}
       /\ stmt.then \in {print_throw_NULL_input, "throw_last_error"}
    \/ /\ stmt.s = "callback_local"
       /\ (stmt.eptr \/ stmt.call.guarded \/ stmt.call.caught # "none")

\* the statements of an item that belong to the exception policy: the
\* exception sites and the on_error scope
PolicySites(item) ==
    {i \in 1..Len(item.code) :
        IsExceptionSite(item.code[i]) \/ item.code[i].s = "on_error_continue"}

\* C17: in status-code mode no definition in the stream holds a throw, a
\* try/catch, an eptr slot or a check that raises; and in one run every
\* definition of a factory, downcast helper, constructor or method follows
\* the policy of the mode: it holds such statements iff noexceptions is not
\* set.
C17_NoExceptionSitesInStatusMode ==
    \A n \in 1..Len(os) :
        /\ noexceptions => \A i \in 1..Len(os[n].code) : ~IsExceptionSite(os[n].code[i])
        /\ (os[n].r = "impl"
                /\ os[n].k \in {"factory", "downcast", "constructor", "method"}) =>
                ((PolicySites(os[n]) # {}) <=> ~noexceptions)

\* C17 witness: in status-code mode the definition of the method for
\* isl_set_foreach_bset, with the local of its callback, and the factories
\* of isl_set were printed.
C17_Witness ==
    /\ noexceptions
    /\ \E n \in 1..Len(os) :
            /\ os[n].r = "impl" /\ os[n].x = f_set_foreach.name
            /\ \E i \in 1..Len(os[n].code) : os[n].code[i].s = "callback_local"
    /\ \E n \in 1..Len(os) : os[n].r = "impl" /\ os[n].k = "factory" /\ os[n].c = n_set

\* the members of a class the two passes both print
MemberKinds == {"factory", "protected_constructor", "public_constructors",
                "constructor", "copy_assignment", "destructor", "ptr", "downcast",
                "str", "method"}

\* the members printed for class c in region r, in the order of the text: the
\* kind of each, and for a declared constructor or a method its function
ClassMembers(r, c) ==
    LET IsMember(it) == it.r = r /\ it.c = c /\ it.k \in MemberKinds
        its == SelectSeq(os, IsMember)
    IN  [i \in 1..Len(its) |->
            <<its[i].k, IF its[i].k \in {"constructor", "method"} THEN its[i].x
                        ELSE <<>> >>]

\* the classes whose implementations have been printed
Implemented == {c \in DOMAIN classes : \E n \in 1..Len(os) :
                    os[n].r = "impl" /\ os[n].c = c}

\* the place of a kind of member in print_class_impl
ImplRank(k) ==
    CASE k = "factory" -> 1
      [] k = "public_constructors" -> 2
      [] k = "protected_constructor" -> 3
      [] k = "constructor" -> 4
      [] k = "copy_assignment" -> 5
      [] k = "destructor" -> 6
      [] k = "ptr" -> 7
      [] k = "str" -> 8
      [] k = "downcast" -> 9
      [] k = "method" -> 10

\* C19 as stated: the implementations of a class come in the order of its
\* declarations.
C19_Original ==
    \A c \in Implemented : ClassMembers("impl", c) = ClassMembers("decl", c)

\* C19: the implementations of a class are those of the members declared
\* for it, in the order factories, public default and copy constructors,
\* protected constructor, declared constructors, copy assignment, destructor,
\* pointer functions, to_str, downcast helpers, methods; declared
\* constructors and methods keep the order of their declarations.
C19_ImplementationOrder ==
    \A c \in Implemented :
        LET d == ClassMembers("decl", c)
            i == ClassMembers("impl", c)
            IsFn(m) == m[1] \in {"constructor", "method"}
        IN  /\ Len(i) = Len(d)
            /\ {i[n] : n \in 1..Len(i)} = {d[n] : n \in 1..Len(d)}
            /\ \A a, b \in 1..Len(i) : a < b => ImplRank(i[a][1]) <= ImplRank(i[b][1])
            /\ SelectSeq(i, IsFn) = SelectSeq(d, IsFn)

\* C19 witness: a class with a type function, a to_str function and methods
\* has been implemented, to_str before the downcast helpers.
C19_Witness ==
    \E c \in Implemented :
        LET i == ClassMembers("impl", c)
        IN  /\ \E a, b, m \in 1..Len(i) :
                    /\ a < b /\ b < m
                    /\ i[a][1] = "str" /\ i[b][1] = "downcast" /\ i[m][1] = "method"
            /\ ClassMembers("decl", c) # i

\* the kinds of the items printed for class c in region r
KindsIn(r, c) == {os[n].k : n \in {m \in 1..Len(os) : os[m].r = r /\ os[m].c = c}}

\* the classes whose declarations have been printed
Declared == {c \in DOMAIN classes : "class_close" \in KindsIn("decl", c)}

\* the parent named on the "class" line of c: <<>> if there is none
ParentOf(c) ==
    LET n == CHOOSE m \in 1..Len(os) :
                os[m].r = "decl" /\ os[m].c = c /\ os[m].k = "class_open"
    IN  os[n].x

\* what only a class with a pointer of its own has
OwnStorage == {"ptr_field", "factory", "friend_factory", "destructor", "ptr"}

\* C20: a declared class has one of two shapes.  One that is not a type based
\* subclass has no parent, a pointer field, the factory functions, a
\* destructor and copy(), get(), release(), is_null() and operator bool(),
\* the last returning !is_null(); a type based subclass names its superclass
\* as parent and has none of these, declared or implemented.  No class has
\* both a pointer field and a parent.
C20_RootOrSubclassShape ==
    /\ \A c \in Declared :
            /\ ~("ptr_field" \in KindsIn("decl", c) /\ ParentOf(c) # <<>>)
            /\ IF is_type_subclass(classes[c])
               THEN /\ ParentOf(c) = <<type2cpp_str(classes[c].name)>>
                    /\ KindsIn("decl", c) \cap OwnStorage = {}
               ELSE /\ ParentOf(c) = <<>>
                    /\ OwnStorage \subseteq KindsIn("decl", c)
    /\ \A n \in 1..Len(os) :
            /\ (os[n].r = "decl" /\ os[n].k = "ptr") =>
                    os[n].x = <<"copy", "get", "release", "is_null", "bool">>
            /\ (os[n].r = "impl" /\ os[n].k = "ptr") =>
                    /\ SubSeq(os[n].code, Len(os[n].code) - 1, Len(os[n].code)) =
                            <<St("return_ptr_eq_nullptr", ""),
                              St("return_not_is_null", "")>>
                    /\ ~is_type_subclass(classes[os[n].c])
    /\ \A c \in Implemented :
            IF is_type_subclass(classes[c])
            THEN KindsIn("impl", c) \cap OwnStorage = {}
            ELSE {"factory", "destructor", "ptr"} \subseteq KindsIn("impl", c)

\* C20 witness: a class with a pointer of its own and a type based subclass
\* of it have both been declared and implemented.
C20_Witness ==
    \E c, d \in Implemented \cap Declared :
        /\ ~is_type_subclass(classes[c]) /\ is_type_subclass(classes[d])
        /\ ParentOf(d) = <<type2cpp_str(c)>>
        /\ "ptr_field" \in KindsIn("decl", c) /\ "ptr_field" \notin KindsIn("decl", d)

\* the keys of the classes printed in region r
PrintedIn(r) == {os[n].c : n \in {m \in 1..Len(os) : os[m].r = r /\ os[m].k # "comment"}}

\* C21: generation leaves the class map as it was: no step of generate()
\* changes its keys or its entries, and the implementation pass visits only
\* classes the forward declaration pass printed.
C21_ClassMapUnchanged ==
    /\ [][classes' = classes]_vars
    /\ [](gen.pc = "impl" => (gen.ci # <<>> => gen.ci[1] \in PrintedIn("fwd")))

\* the superclass of type based subclass c has a type function
ParentHasType(c) == classes[classes[c].name].fn_type

\* C22: a type based subclass whose superclass has no type function is never
\* printed: generate() aborts instead, so it does not return.
C22_SubclassNeedsTypeFunction ==
    \A c \in DOMAIN classes :
        (is_type_subclass(classes[c]) /\ ~ParentHasType(c)) =>
            /\ \A n \in 1..Len(os) :
                    ~(os[n].c = c /\ os[n].r \in {"decl", "impl"})
            /\ gen.pc # "done"

\* C23: the lambda wraps its object argument with isl::manage if the callback
\* takes its arguments and with isl::manage_copy otherwise.  When the isl
\* function keeps ownership, the reference it holds is still there after the
\* lambda has returned, whether the copy succeeded or not and whether the
\* closure returned or threw; when it hands the object over, the wrapper
\* frees that one reference.
C23_CallbackArgumentOwnership ==
    run.cb # <<>> =>
        /\ run.cb.wrap = (IF run.cb.took THEN "isl::manage" ELSE "isl::manage_copy")
        /\ run.cb.arg # NullPtr =>
                run.cb.refs = (IF run.cb.took THEN 0 ELSE 1)

\* C23 witness: the closure was called on a copy of an object the isl
\* function keeps, and the object has its one reference left.
C23_Witness ==
    /\ run.cb # <<>> /\ ~run.cb.took /\ run.cb.arg # NullPtr
    /\ run.cb.called /\ run.cb.wrap = "isl::manage_copy" /\ run.cb.refs = 1

\* the type the callback of the running method returns
CallbackReturnType ==
    ParamNamed(run.body[CHOOSE i \in CallbackLocals : TRUE].name).type.cb[1]

\* C24: in exception mode nothing thrown while the lambda wraps the argument
\* and calls the closure leaves the lambda: it is stored in eptr and the
\* lambda returns isl_stat_error, isl_bool_error or NULL, by the type the
\* callback returns; when nothing is thrown the lambda returns isl_stat_ok,
\* the isl_bool of the closure's bool, or the pointer released from the
\* closure's result.  In status-code mode the lambda has no try block and
\* stores nothing; it returns the closure's isl::stat as isl_stat, or what
\* release() of the closure's result yields.
C24_TrampolineContainsFailures ==
    run.cb # <<>> =>
        /\ run.cb.escaped = "none"
        /\ Len(run.cb.ret) = 1
        /\ IF noexceptions
           THEN /\ run.cb.caught = "none" /\ run.eptr = "none" /\ run.writes = 0
                /\ \A i \in CallbackLocals :
                        ~run.body[i].call.guarded /\ ~run.body[i].eptr
                /\ run.cb.ret = run.cb.cret
           ELSE /\ \A i \in CallbackLocals :
                        run.body[i].call.guarded /\ run.body[i].eptr
                /\ run.cb.caught # "none" =>
                        /\ run.eptr = run.cb.caught
                        /\ run.cb.ret =
                             <<IF is_isl_stat(CallbackReturnType)
                                  \/ is_isl_bool(CallbackReturnType)
                               THEN -1 ELSE NullPtr>>
                /\ run.cb.caught = "none" =>
                        run.cb.ret =
                            (IF is_isl_stat(CallbackReturnType) THEN <<0>>
                             ELSE run.cb.cret)

\* C24 witness: in exception mode the closure of a callback that returns an
\* object threw, and the lambda returned NULL with the exception in eptr.
C24_Witness ==
    /\ ~noexceptions /\ run.cb # <<>> /\ run.cb.called
    /\ run.cb.caught \in Exceptions /\ run.eptr = run.cb.caught
    /\ is_isl_type(CallbackReturnType) /\ run.cb.ret = <<NullPtr>>

\* C25: during one call of a method with a callback, in exception mode, eptr
\* is written at most once, however often the isl function calls the lambda,
\* and once the isl function has returned the method reads it exactly once.
C25_SlotWrittenOnceDrainedOnce ==
    (~noexceptions /\ CallbackLocals # {}) =>
        /\ run.writes <= 1
        /\ run.drains <= 1
        /\ (run.st = "done" /\ run.calls = 1) => run.drains = 1

\* the references to object h that no live wrapper holds: those the caller
\* got from release() or holds otherwise
RawRefs(hp, ob, h) ==
    hp[h].refs - Cardinality({w \in Wrappers : ob[w].live /\ ob[w].ptr = h})

\* C26: through every sequence of construction, manage, manage_copy, copy
\* construction, copy assignment, release, downcasts, uses as receiver or
\* argument of an isl function, and destruction, every live wrapper that
\* holds an object holds a reference of its own to it (so no reference is
\* freed twice), only release() hands a reference to the caller, no step
\* loses a reference, and destroying a wrapper frees exactly the one
\* reference it holds.
C26_WrapperOwnership ==
    /\ [](\A h \in Handles : RawRefs(heap, obj, h) >= 0)
    /\ [](\A w \in Wrappers : ~obj[w].live => obj[w].ptr = NullPtr)
    /\ [][\A h \in Handles :
            RawRefs(heap', obj', h) =
                RawRefs(heap, obj, h)
                    + (IF op'.name = "release" /\ op'.pre = h THEN 1 ELSE 0)]_vars
    /\ [][op'.name = "destroy" =>
            \A h \in Handles :
                heap'[h].refs = heap[h].refs - (IF op'.pre = h THEN 1 ELSE 0)]_vars

\* C26 witness: a wrapper that shared its object with a copy has been
\* destroyed; the object lives on with the reference of the copy.
C26_Witness ==
    /\ op.name = "destroy" /\ op.pre # NullPtr
    /\ heap[op.pre].refs = 1
    /\ \E w \in Wrappers : obj[w].live /\ obj[w].ptr = op.pre

\* C27: in the declarations, the class of a type based subclass is opened
\* only after the class of its superclass has been closed.
C27_SuperclassDeclaredFirst ==
    \A n \in 1..Len(os) :
        (os[n].r = "decl" /\ os[n].k = "class_open"
                /\ is_type_subclass(classes[os[n].c])) =>
            \E m \in 1..(n - 1) :
                /\ os[m].r = "decl" /\ os[m].k = "class_close"
                /\ os[m].c = classes[os[n].c].name

(***************************************************************************)
(* is_subclass, one turn of its loop at a time.  gen holds the position in *)
(* the function ("start", "loop", and "true" or "false" once it has        *)
(* returned), the keys of the classes in "parents" (ci), the type asked    *)
(* about and the key of class_type.                                        *)
(***************************************************************************)
\* superclass relations the annotations of the headers can spell out: the
\* one of the base model, one with two superclasses, one in which
\* isl_uset and isl_set name each other, one in which isl_val names itself
WalkModels ==
    {BaseModel,
     [BaseModel EXCEPT ![n_bset].supers = <<n_set, n_uset>>],
     [BaseModel EXCEPT ![n_uset].supers = <<n_set>>],
     [BaseModel EXCEPT ![n_val].supers = <<n_val>>]}

WalkInit ==
    /\ noexceptions = FALSE
    /\ classes \in WalkModels
    /\ \E type \in {t_uset, t_set, t_bset, t_val, t_node, t_point},
          class_key \in ClassKeys :
            gen = [pc |-> "start", ci |-> <<>>, type |-> type, cls |-> class_key]
    /\ typeIn = <<>> /\ typeOut = <<>>
    /\ aborted = FALSE /\ os = <<>>
    /\ hdrFn = <<>> /\ hdrDecl = <<>> /\ hdrImpl = <<>>
    /\ obj = ObjIdle /\ heap = ObjIdle /\ op = OpIdle
    /\ tagCalls = 0 /\ convErr = "false"
    /\ run = RunIdle

WalkFrame == UNCHANGED <<noexceptions, typeIn, typeOut, hdrFn, hdrDecl, hdrImpl,
                         aborted, os, objVars, run>>

\* parents.push_back(&classes[*ci]) for every superclass: the class map
\* after the lookups
RECURSIVE touch_all(_, _)
touch_all(map, names) ==
    IF names = <<>> THEN map
    ELSE touch_all(map_touch(map, Head(names)), Tail(names))

\* the lookup of type_str and the first for loop
WalkStart ==
    /\ gen.pc = "start"
    /\ LET type_str == gen.type.cname
           map == map_touch(classes, type_str)
           superclasses == map[type_str].supers
       IN  /\ classes' = touch_all(map, superclasses)
           /\ gen' = [gen EXCEPT !.pc = "loop", !.ci = superclasses]
    /\ WalkFrame

\* one turn of the while loop
WalkStep ==
    /\ gen.pc = "loop" /\ gen.ci # <<>>
    /\ LET candidate == gen.ci[Len(gen.ci)]
           rest == SubSeq(gen.ci, 1, Len(gen.ci) - 1)
           superclasses == classes[candidate].supers
       IN  IF gen.cls = candidate
           THEN /\ gen' = [gen EXCEPT !.pc = "true", !.ci = rest]
                /\ UNCHANGED classes
           ELSE /\ gen' = [gen EXCEPT !.ci = rest \o superclasses]
                /\ classes' = touch_all(classes, superclasses)
    /\ WalkFrame

\* parents is empty: return false
WalkEnd ==
    /\ gen.pc = "loop" /\ gen.ci = <<>>
    /\ gen' = [gen EXCEPT !.pc = "false"]
    /\ UNCHANGED classes
    /\ WalkFrame

WalkNext == WalkStart \/ WalkStep \/ WalkEnd

\* the generator runs on as long as it can
SpecWalk == WalkInit /\ [][WalkNext]_vars /\ WF_vars(WalkNext)

\* C28: is_subclass returns, for every type, class and superclass relation.
C28_SubclassTestTerminates == <>(gen.pc \in {"true", "false"})

\* the running method belongs to a type based subclass and its isl function
\* returns an object of the superclass
ReturnsSuper ==
    /\ run.kind \in {"member_method", "static_method"}
    /\ is_type_subclass(classes[run.cls])
    /\ is_isl_type(run.fn.ret) /\ run.fn.ret.cname = classes[run.cls].name

====
